---- MODULE Spec2Model ----
(***************************************************************************)
(* Retrieval pipeline of the legal RAG service: searchNearest (title       *)
(* cascade, lazy embedding, dimension check, vector query, body loads),    *)
(* fetchRelevantMatches + handleSearch, answerQuestion + handleQA.         *)
(* Strings are TLA+ strings; a character is a string of length one.        *)
(***************************************************************************)
EXTENDS Integers, Sequences, FiniteSets, TLC

Null == "__null__"

(***************************************************************************)
(* String primitives (JavaScript String / RegExp character classes)        *)
(***************************************************************************)
UpperAlpha == "ABCDEFGHIJKLMNOPQRSTUVWXYZ"
LowerAlpha == "abcdefghijklmnopqrstuvwxyz"
DigitChars == "0123456789"

Ch(s, i) == SubSeq(s, i, i)

CharsOf(s) == {Ch(s, i) : i \in 1..Len(s)}

UpperSet == CharsOf(UpperAlpha)
LowerSet == CharsOf(LowerAlpha)
DigitSet == CharsOf(DigitChars)

LetterSet == UpperSet \cup LowerSet
WordSet == LetterSet \cup DigitSet \cup {"_"}

IsLetter(c) == c \in LetterSet
IsDigit(c) == c \in DigitSet
\* \s : blank, line feed and tab are the whitespace characters of the model's texts
IsSpace(c) == c \in {" ", "\n", "\t"}
\* \w
IsWordCh(c) == c \in WordSet

\* String.prototype.toLowerCase, one character
LowerMap == [c \in UpperSet |-> Ch(LowerAlpha, CHOOSE i \in 1..26 : Ch(UpperAlpha, i) = c)]

LowerCh(c) == IF c \in UpperSet THEN LowerMap[c] ELSE c

\* String.prototype.toLowerCase, by halves
RECURSIVE Lower(_)
Lower(s) ==
  IF Len(s) <= 1 THEN (IF s = "" THEN "" ELSE LowerCh(s))
  ELSE Lower(SubSeq(s, 1, Len(s) \div 2)) \o Lower(SubSeq(s, Len(s) \div 2 + 1, Len(s)))

\* first index >= i that is past the end or holds a non-blank (greedy \s*)
RECURSIVE SkipSpaces(_, _)
SkipSpaces(s, i) ==
  IF i > Len(s) \/ ~IsSpace(Ch(s, i)) THEN i ELSE SkipSpaces(s, i + 1)

\* last index <= i that is before the start or holds a non-blank
RECURSIVE SkipSpacesBack(_, _)
SkipSpacesBack(s, i) ==
  IF i < 1 \/ ~IsSpace(Ch(s, i)) THEN i ELSE SkipSpacesBack(s, i - 1)

\* String.prototype.trim
Trim(s) == SubSeq(s, SkipSpaces(s, 1), SkipSpacesBack(s, Len(s)))

\* the sequence f with every element computed
Explicit(f) == SubSeq(f, 1, Len(f))

\* does sub occur in s starting at index i (case-sensitive)
StartsAt(s, sub, i) ==
  /\ i >= 1
  /\ i + Len(sub) - 1 <= Len(s)
  /\ SubSeq(s, i, i + Len(sub) - 1) = sub

\* case-insensitive variant (RegExp flag i, SQL ILIKE)
StartsAtI(s, sub, i) ==
  /\ i >= 1
  /\ i + Len(sub) - 1 <= Len(s)
  /\ \A j \in 1..Len(sub) : LowerCh(Ch(s, i + j - 1)) = LowerCh(Ch(sub, j))

\* String.prototype.includes
Includes(s, sub) == \E i \in 1..(Len(s) + 1) : StartsAt(s, sub, i)

IncludesI(s, sub) == Includes(Lower(s), Lower(sub))

\* \b between index i-1 and index i of s (i in 1..Len(s)+1)
WordBoundary(s, i) ==
  LET before == i > 1 /\ IsWordCh(Ch(s, i - 1))
      after == i <= Len(s) /\ IsWordCh(Ch(s, i))
  IN before # after

\* s.replace(/\./g, '')
RECURSIVE RemoveDots(_)
RemoveDots(s) ==
  IF s = "" THEN ""
  ELSE (IF Ch(s, 1) = "." THEN "" ELSE Ch(s, 1)) \o RemoveDots(Tail(s))

\* s.replace(/\s+/g, ' ')
\* (the first character of a whitespace run becomes a blank, the others go)
RECURSIVE CollapseRange(_, _, _)
CollapseRange(s, a, b) ==
  IF a > b THEN ""
  ELSE IF a = b
    THEN (IF ~IsSpace(Ch(s, a)) THEN Ch(s, a)
          ELSE IF a > 1 /\ IsSpace(Ch(s, a - 1)) THEN "" ELSE " ")
    ELSE CollapseRange(s, a, (a + b) \div 2) \o CollapseRange(s, (a + b) \div 2 + 1, b)

CollapseSpaces(s) == CollapseRange(s, 1, Len(s))

\* regexp_replace(x, '[.\s]+', '', 'g')
RECURSIVE RemoveDotsAndSpaces(_)
RemoveDotsAndSpaces(s) ==
  IF s = "" THEN ""
  ELSE (IF Ch(s, 1) = "." \/ IsSpace(Ch(s, 1)) THEN "" ELSE Ch(s, 1))
         \o RemoveDotsAndSpaces(Tail(s))

\* every character of s[i..Len(s)] satisfies the class test
AllFrom(s, i, InClass(_)) == \A j \in i..Len(s) : InClass(Ch(s, j))

\* Set-like insertion into an ordered list (JavaScript Set keeps insertion order)
SetAdd(seq, x) == IF \E i \in 1..Len(seq) : seq[i] = x THEN seq ELSE Append(seq, x)

RECURSIVE SetAddAll(_, _)
SetAddAll(seq, xs) ==
  IF xs = <<>> THEN seq ELSE SetAddAll(SetAdd(seq, Head(xs)), Tail(xs))

(***************************************************************************)
(* Title/identifier resolver helpers (closures of searchNearest)           *)
(***************************************************************************)
\* abbrMap: each key is the pattern \b<dotted>|\b<bare>\b
abbrMap == <<
  [dotted |-> "R.A.", bare |-> "RA", full |-> "Republic Act"],
  [dotted |-> "G.R.", bare |-> "GR", full |-> "G.R."],
  [dotted |-> "C.A.", bare |-> "CA", full |-> "Commonwealth Act"],
  [dotted |-> "P.D.", bare |-> "PD", full |-> "Presidential Decree"],
  [dotted |-> "A.O.", bare |-> "AO", full |-> "Administrative Order"],
  [dotted |-> "B.P.", bare |-> "BP", full |-> "Batas Pambansa"],
  [dotted |-> "M.C.", bare |-> "MC", full |-> "Memorandum Circular"],
  [dotted |-> "A.M.", bare |-> "AM", full |-> "Administrative Matter"],
  [dotted |-> "E.O.", bare |-> "EO", full |-> "Executive Order"] >>

\* new RegExp(pat, 'i').test(s)
AbbrTest(s, e) ==
  \E i \in 1..Len(s) :
    /\ WordBoundary(s, i)
    /\ \/ StartsAtI(s, e.dotted, i)
       \/ StartsAtI(s, e.bare, i) /\ WordBoundary(s, i + Len(e.bare))

\* new RegExp('^' + pat + '$', 'i').test(ab): ^\b<dotted> | \b<bare>\b$
AbbrTestAnchored(ab, e) ==
  \/ StartsAtI(ab, e.dotted, 1) /\ WordBoundary(ab, 1)
  \/ LET i == Len(ab) - Len(e.bare) + 1
     IN /\ StartsAtI(ab, e.bare, i)
        /\ WordBoundary(ab, i)
        /\ WordBoundary(ab, Len(ab) + 1)

\* [A-Za-z.\s]
IsPreCh(c) == IsLetter(c) \/ c = "." \/ IsSpace(c)
\* [0-9A-Za-z/\-._]
IsIdCh(c) == IsDigit(c) \/ IsLetter(c) \/ c \in {"/", "-", ".", "_"}
\* [A-Za-z.]
IsAbCh(c) == IsLetter(c) \/ c = "."
\* [-0-9A-Za-z/]
IsEvCh(c) == IsDigit(c) \/ IsLetter(c) \/ c \in {"-", "/"}

\* ([0-9][0-9A-Za-z/\-._]*)$ matched at index p
IdAt(s, p) == p <= Len(s) /\ IsDigit(Ch(s, p)) /\ AllFrom(s, p, IsIdCh)

\* index reached by \s*[:#-]?\s* from index q (each part greedy)
AfterSeparator(s, q) ==
  LET a == SkipSpaces(s, q)
  IN IF a <= Len(s) /\ Ch(s, a) \in {":", "#", "-"}
       THEN SkipSpaces(s, a + 1)
       ELSE a

\* s.match(/([A-Za-z.\s]{1,10})\s*[:#-]?\s*([0-9][0-9A-Za-z/\-._]*)$/i):
\* the pairs <<start, length of group 1>> for which the pattern matches
IdMatches(s) ==
  {m \in (1..Len(s)) \X (1..10) :
     /\ m[1] + m[2] - 1 <= Len(s)
     /\ \A j \in m[1]..(m[1] + m[2] - 1) : IsPreCh(Ch(s, j))
     /\ IdAt(s, AfterSeparator(s, m[1] + m[2]))}

\* idPart: group 2 of the leftmost match, group 1 greedy; Null when no match
IdPart(s) ==
  LET ms == IdMatches(s)
  IN IF ms = {} THEN Null
     ELSE LET st == CHOOSE a \in {m[1] : m \in ms} :
                      \A b \in {m[1] : m \in ms} : a <= b
              g == CHOOSE a \in {m[2] : m \in {n \in ms : n[1] = st}} :
                     \A b \in {m[2] : m \in {n \in ms : n[1] = st}} : a >= b
          IN Trim(SubSeq(s, AfterSeparator(s, st + g), Len(s)))

\* length of the leading run of [A-Za-z.] in s
RECURSIVE AbRun(_, _)
AbRun(s, i) == IF i > Len(s) \/ ~IsAbCh(Ch(s, i)) THEN i - 1 ELSE AbRun(s, i + 1)

\* s.match(/^([A-Za-z.]{1,5})\s*([0-9][0-9A-Za-z/\-._]*)$/i); ok = matched
BareMatch(s) ==
  LET r == AbRun(s, 1)
      p == SkipSpaces(s, r + 1)
  IN IF r >= 1 /\ r <= 5 /\ IdAt(s, p)
       THEN [ok |-> TRUE, ab |-> SubSeq(s, 1, r), id |-> SubSeq(s, p, Len(s))]
       ELSE [ok |-> FALSE, ab |-> "", id |-> ""]

\* variants added for abbrMap entries i..Len(abbrMap) in the first loop
RECURSIVE ExpandAbbr(_, _, _, _)
ExpandAbbr(vs, s, idPart, i) ==
  IF i > Len(abbrMap) THEN vs
  ELSE LET e == abbrMap[i]
           added ==
             IF ~AbbrTest(s, e) THEN <<>>
             ELSE (IF idPart # Null /\ idPart # ""
                     THEN << e.full \o " No. " \o idPart,
                             e.full \o " " \o idPart,
                             e.full \o " No " \o idPart,
                             e.full \o " No." \o idPart >>
                     ELSE << e.full >>)
                  \o << Trim(RemoveDots(CollapseSpaces(s))) >>
       IN ExpandAbbr(SetAddAll(vs, added), s, idPart, i + 1)

\* variants added for abbrMap entries i.. in the bare-abbreviation loop
RECURSIVE ExpandBare(_, _, _)
ExpandBare(vs, bm, i) ==
  IF i > Len(abbrMap) THEN vs
  ELSE LET e == abbrMap[i]
           added ==
             IF AbbrTestAnchored(bm.ab, e)
               THEN << e.full \o " No. " \o bm.id, e.full \o " " \o bm.id >>
               ELSE <<>>
       IN ExpandBare(SetAddAll(vs, added), bm, i + 1)

\* generateTitleVariants(q): insertion-ordered, duplicate-free list
\* no expansion: the trimmed query is the only variant
OnlyOriginalVariant(q) == << Trim(q) >>

generateTitleVariants(q) ==
  LET s == Trim(q)
      v1 == ExpandAbbr(<<s>>, s, IdPart(s), 1)
      bm == BareMatch(s)
  IN IF ~bm.ok THEN v1
     ELSE SetAdd(ExpandBare(v1, bm, 1), bm.ab \o " " \o bm.id)

\* the alternatives of (?:No\.?|Number|#)? in the order the engine tries them
\* ("" is the skipped group)
evidenceMarkers == << "No.", "No", "Number", "#", "" >>

\* index where group 2 starts when group 1 has length g and marker mi is used
EvidenceStart(s, g, mi) ==
  LET a == SkipSpaces(s, g + 1)
  IN IF StartsAtI(s, evidenceMarkers[mi], a)
       THEN SkipSpaces(s, a + Len(evidenceMarkers[mi]))
       ELSE 0

\* parses <<g, mi>> accepted by
\* /^\s*([A-Za-z.\s]{1,30}?)\s*(?:No\.?|Number|#)?\s*([-0-9A-Za-z/]+)\s*$/i
\* on a trimmed s
TypeEvidenceParses(s) ==
  {m \in (1..30) \X (1..Len(evidenceMarkers)) :
     /\ m[1] <= Len(s)
     /\ \A j \in 1..m[1] : IsPreCh(Ch(s, j))
     /\ LET p == EvidenceStart(s, m[1], m[2])
        IN p >= 1 /\ p <= Len(s) /\ AllFrom(s, p, IsEvCh)}

\* extractTypeEvidence(q): group 1 is lazy, the marker alternatives are tried
\* in order; ok = FALSE stands for the null result
extractTypeEvidence(q) ==
  LET s == Trim(q)
      ps == TypeEvidenceParses(s)
      none == [ok |-> FALSE, type |-> "", evidence |-> ""]
  IN IF ps = {} THEN none
     ELSE LET g == CHOOSE a \in {m[1] : m \in ps} :
                     \A b \in {m[1] : m \in ps} : a <= b
              mi == CHOOSE a \in {m[2] : m \in {n \in ps : n[1] = g}} :
                      \A b \in {m[2] : m \in {n \in ps : n[1] = g}} : a <= b
              t == Trim(SubSeq(s, 1, g))
              ev == Trim(SubSeq(s, EvidenceStart(s, g, mi), Len(s)))
          IN IF t = "" \/ ev = "" THEN none
             ELSE [ok |-> TRUE, type |-> t, evidence |-> ev]

\* the words of the fullKeywords alternation (the two-word alternatives are
\* subsumed by their first word)
fullKeywords == << "Republic", "Presidential", "Executive", "Administrative",
                   "Commonwealth", "Batas", "Memorandum" >>

HasFullKeyword(v) == \E i \in 1..Len(fullKeywords) : IncludesI(v, fullKeywords[i])

\* /\bNo\.?\b/i.test(v)
HasNoMarker(v) ==
  \E i \in 1..Len(v) :
    /\ WordBoundary(v, i)
    /\ StartsAtI(v, "No", i)
    /\ \/ StartsAt(v, ".", i + 2) /\ WordBoundary(v, i + 3)
       \/ WordBoundary(v, i + 2)

\* chooseBestTitleVariant(variants): pool.sort((a, b) => b.length - a.length)
\* is stable, so pool[0] is the first of the longest entries
chooseBestTitleVariant(variants) ==
  IF variants = <<>> THEN Null
  ELSE LET full == SelectSeq(variants, HasFullKeyword)
           cands == IF full = <<>> THEN SelectSeq(variants, HasNoMarker) ELSE full
           pool == IF cands # <<>> THEN cands ELSE variants
           i == CHOOSE a \in 1..Len(pool) :
                  /\ \A b \in 1..Len(pool) : Len(pool[b]) <= Len(pool[a])
                  /\ \A b \in 1..(a - 1) : Len(pool[b]) < Len(pool[a])
       IN pool[i]

(***************************************************************************)
(* Bounds and configuration                                                *)
(***************************************************************************)
\* largest k passed by a direct caller of searchNearest (callers pass k >= 1)
MaxK == 2
\* HARD_LIMIT of the daily request counter
HardLimit == 2
\* declared dimension of the stored vectors
StoreDim == 2
\* const MAX_MATCHES of the search orchestrator
MAX_MATCHES == 5
\* longest excerpt extractRelevantSnippet returns before the ellipsis
SnippetMaxChars == 300

UNKNOWN_PHRASE == "Insufficient information"

\* a NULL date column / an unset RAG_TODAY (Date.parse gives NaN)
NoDate == 0 - 1

(***************************************************************************)
(* The corpus: embeddings rows LEFT JOIN documents rows, and the files     *)
(* under RAG_CORPUS_PATH.  title/filename = Null, date = NoDate: SQL NULL. *)
(* dist is the value of embedding <-> query vector for the row.            *)
(***************************************************************************)
Corpus == <<
  [uuid |-> "u1", title |-> "Republic Act No. 1061", category |-> "Republic Act",
   filename |-> "ra_1061_1954", relative_path |-> "ra", date |-> 1954, dist |-> 3,
   body |-> "Republic Act 1061 governs maritime contracts. Negligence voids them."],
  [uuid |-> "u2", title |-> "REPUBLIC ACT NO. 1061", category |-> "Republic Act",
   filename |-> "ra_1061_copy", relative_path |-> "ra", date |-> 1960, dist |-> 1,
   body |-> "republic act 1061 maritime contracts negligence"],
  [uuid |-> "u3", title |-> "Anti-Dummy Law", category |-> "RA",
   filename |-> "1061", relative_path |-> Null, date |-> NoDate, dist |-> 2,
   body |-> "Penalties apply to dummies. See 1061!"],
  [uuid |-> "u4", title |-> "Rules implementing Republic Act No. 1061", category |-> "IRR",
   filename |-> "irr_ra_1061", relative_path |-> "irr", date |-> 2001, dist |-> 2,
   body |-> "Negligence in maritime contracts is punished."],
  [uuid |-> "u5", title |-> Null, category |-> Null,
   filename |-> Null, relative_path |-> Null, date |-> NoDate, dist |-> 0,
   body |-> ""],
  [uuid |-> "u6", title |-> "  Republic Act No. 1061 ", category |-> "Republic Act",
   filename |-> "ra_1061_2020", relative_path |-> "ra", date |-> 2020, dist |-> 4,
   body |-> "Superseded. Republic contracts of 1061?"] >>

DocIds == 1..Len(Corpus)

\* COALESCE(x::text, '')
Coalesce(x) == IF x = Null THEN "" ELSE x

\* WHERE trim(m.title) = trim($1)
ExactTitleMatch(d, v) == d.title # Null /\ Trim(d.title) = Trim(v)

\* WHERE lower(regexp_replace(m.title, '[.\s]+', '', 'g'))
\*         = lower(regexp_replace($1, '[.\s]+', '', 'g'))
NormalizedTitleMatch(d, v) ==
  d.title # Null /\ Lower(RemoveDotsAndSpaces(d.title)) = Lower(RemoveDotsAndSpaces(v))

\* WHERE (category ILIKE $1 OR category ILIKE '%' || $1 || '%') AND filename ILIKE $2
\* ($1, $2 hold no LIKE wildcard: their character classes exclude % and _)
TypeEvidenceMatch(d, pair) ==
  /\ \/ Lower(Coalesce(d.category)) = Lower(pair.type)
     \/ IncludesI(Coalesce(d.category), pair.type)
  /\ Lower(Coalesce(d.filename)) = Lower(pair.evidence)

\* WHERE ( m.title ILIKE '%' || $3 || '%' )
TitleFilterMatch(d, v) == d.title # Null /\ IncludesI(d.title, v)

\* the row a cascade SELECT returns for document i (no dist column)
CascadeRow(i) == [uuid |-> Corpus[i].uuid, filename |-> Corpus[i].filename,
                  relative_path |-> Corpus[i].relative_path, date |-> Corpus[i].date]

\* the row the vector SELECT returns for document i
Row(i) == [uuid |-> Corpus[i].uuid, filename |-> Corpus[i].filename,
           relative_path |-> Corpus[i].relative_path, date |-> Corpus[i].date,
           dist |-> Corpus[i].dist]

\* uuid is the join key between rows and the corpus
DocOf(uuid) == CHOOSE i \in DocIds : Corpus[i].uuid = uuid

\* injective sequences of length n over the set S
Arrangements(S, n) ==
  {q \in [1..n -> S] : \A a, b \in 1..n : a # b => q[a] # q[b]}

Min(a, b) == IF a <= b THEN a ELSE b

\* SELECT ... WHERE <matching> LIMIT k without ORDER BY: any k of the matching
\* rows, in any order
LimitResults(matching, k) ==
  {[p \in 1..Len(q) |-> CascadeRow(q[p])] :
     q \in Arrangements(matching, Min(k, Cardinality(matching)))}

\* SELECT ... WHERE <matching> ORDER BY dist LIMIT k: rows in non-decreasing
\* distance, ties in any order, no omitted row closer than a returned one
NearestResults(matching, k) ==
  {[p \in 1..Len(q) |-> Row(q[p])] :
     q \in {r \in Arrangements(matching, Min(k, Cardinality(matching))) :
              /\ \A a \in 1..(Len(r) - 1) : Corpus[r[a]].dist <= Corpus[r[a + 1]].dist
              /\ \A o \in matching \ {r[a] : a \in 1..Len(r)} :
                   \A a \in 1..Len(r) : Corpus[r[a]].dist <= Corpus[o].dist}}

\* Number.POSITIVE_INFINITY of the date comparators
Infinity == 1000000

Abs(x) == IF x < 0 THEN 0 - x ELSE x

\* Math.abs(Date.parse(String(r.date)) - ragToday), Infinity when unparseable
DateDiff(r, ragToday) == IF r.date = NoDate THEN Infinity ELSE Abs(r.date - ragToday)

\* lexicographic < on pairs
PairLess(a, b) == a[1] < b[1] \/ (a[1] = b[1] /\ a[2] < b[2])

\* Array.prototype.sort with a comparator that orders by key (stable)
StableSortByKey(seq, key) ==
  LET rank(i) == 1 + Cardinality({j \in 1..Len(seq) :
                       PairLess(key[j], key[i]) \/ (key[j] = key[i] /\ j < i)})
  IN [p \in 1..Len(seq) |-> seq[CHOOSE i \in 1..Len(seq) : rank(i) = p]]

\* the sort of exactRows / idRows / typeRows when RAG_TODAY is set
SortByDate(rows, ragToday) ==
  IF ragToday = NoDate THEN rows
  ELSE StableSortByKey(rows, [i \in 1..Len(rows) |-> <<DateDiff(rows[i], ragToday), 0>>])

\* the vector rows left in the order the store gave them
KeepStoreOrder(rows, ragToday) == rows

\* the sort of the vector rows: date proximity, then (a.dist || 0)
SortByDateThenDist(rows, ragToday) ==
  IF ragToday = NoDate THEN rows
  ELSE StableSortByKey(rows,
         [i \in 1..Len(rows) |-> <<DateDiff(rows[i], ragToday), rows[i].dist>>])

(***************************************************************************)
(* downsampleEmbedding                                                     *)
(***************************************************************************)
RECURSIVE SumRange(_, _, _)
SumRange(v, a, b) == IF a > b THEN 0 ELSE v[a] + SumRange(v, a + 1, b)

\* downsampleEmbedding that takes the zero-width fallback for every block
DownsampleNearest(embedding, targetDim) ==
  LET origDim == Len(embedding)
  IN IF targetDim = 0 \/ targetDim >= origDim THEN embedding
     ELSE [i1 \in 1..targetDim |->
             [num |-> embedding[Min(((i1 - 1) * origDim) \div targetDim, origDim - 1) + 1],
              den |-> 1]]

\* downsampleEmbedding that hands the vector back whatever the target
DownsampleKeepLength(embedding, targetDim) == embedding

\* Embedding components are integers; a block mean is the fraction num/den.
\* Indices are 0-based as in the source (v[j + 1] is embedding[j]).
downsampleEmbedding(embedding, targetDim) ==
  LET origDim == Len(embedding)
  IN IF targetDim = 0 \/ targetDim >= origDim THEN embedding
     ELSE [i1 \in 1..targetDim |->
             LET i == i1 - 1
                 start == (i * origDim) \div targetDim
                 end == ((i + 1) * origDim) \div targetDim
             IN IF end <= start
                  THEN [num |-> embedding[Min(start, origDim - 1) + 1], den |-> 1]
                  ELSE [num |-> SumRange(embedding, start + 1, end), den |-> end - start]]

(***************************************************************************)
(* Relevance scoring                                                       *)
(***************************************************************************)
\* s.split(/\s+/) without the empty pieces (every caller filters by length)
RECURSIVE Words(_)
Words(s) ==
  LET a == SkipSpaces(s, 1)
  IN IF a > Len(s) THEN <<>>
     ELSE LET b == CHOOSE j \in a..Len(s) :
                     /\ \A m \in a..j : ~IsSpace(Ch(s, m))
                     /\ (j = Len(s) \/ IsSpace(Ch(s, j + 1)))
          IN <<SubSeq(s, a, b)>> \o Words(SubSeq(s, b + 1, Len(s)))

LongerThan2(w) == Len(w) > 2
LongerThan3(w) == Len(w) > 3

CountIncluded(text, words) ==
  Cardinality({i \in 1..Len(words) : Includes(text, words[i])})

\* keywordMatch(text, query) as the fraction num/den (0/1 when no query word)
keywordMatch(text, query) ==
  LET queryWords == SelectSeq(Words(Lower(query)), LongerThan2)
  IN IF Len(queryWords) > 0
       THEN [num |-> CountIncluded(Lower(text), queryWords), den |-> Len(queryWords)]
       ELSE [num |-> 0, den |-> 1]

\* Math.exp(-d) in millionths, d = 0..4
ExpNegMicro == << 1000000, 367879, 135335, 49787, 18316 >>

distanceToSimilarity(distance) == ExpNegMicro[distance + 1]

\* m.dist || 2 : the objects searchNearest returns carry no dist property
DistOrDefault(m) == IF "dist" \in DOMAIN m /\ m.dist # 0 THEN m.dist ELSE 2

\* m.text || ''
TextOrEmpty(m) == IF m.text = Null THEN "" ELSE m.text

\* relevanceScore = semanticScore * 0.7 + keywordScore * 0.3, as an integer in
\* units of 1 / (10^7 * den), den the keywordScore denominator (the same for
\* every match of one query)
RelevanceScaled(sem, kw) == 7 * sem * kw.den + 3000000 * kw.num

\* relevanceScore > 0.2 in the same units
AboveThreshold(m) == m.relevanceScore > 2000000 * m.keywordScore.den

ScoreOne(m, query) ==
  LET kw == keywordMatch(TextOrEmpty(m), query)
      sem == distanceToSimilarity(DistOrDefault(m))
      scored == [uuid |-> m.uuid, filename |-> m.filename,
                 relative_path |-> m.relative_path, date |-> m.date, text |-> m.text,
                 semanticScore |-> sem, keywordScore |-> kw,
                 relevanceScore |-> RelevanceScaled(sem, kw)]
  IN IF "dist" \in DOMAIN m THEN [dist |-> m.dist] @@ scored ELSE scored

\* scoreMatches without its sort
scoreMatchesUnsorted(matches, query, maxResults) ==
  LET mapped == [i \in 1..Len(matches) |-> ScoreOne(matches[i], query)]
      kept == SelectSeq(mapped, AboveThreshold)
  IN SubSeq(kept, 1, Min(maxResults, Len(kept)))

\* scoreMatches(matches, query, maxResults): map, filter, sort descending, slice
scoreMatches(matches, query, maxResults) ==
  LET mapped == [i \in 1..Len(matches) |-> ScoreOne(matches[i], query)]
      kept == SelectSeq(mapped, AboveThreshold)
      sorted == StableSortByKey(kept,
                  [i \in 1..Len(kept) |-> <<0 - kept[i].relevanceScore, 0>>])
  IN SubSeq(sorted, 1, Min(maxResults, Len(sorted)))

(***************************************************************************)
(* Snippet extraction and formatting                                       *)
(***************************************************************************)
IsTerminator(c) == c \in {".", "!", "?"}

\* first index >= i past the end or (not) holding a terminator
RECURSIVE SkipTerminators(_, _)
SkipTerminators(s, i) ==
  IF i > Len(s) \/ ~IsTerminator(Ch(s, i)) THEN i ELSE SkipTerminators(s, i + 1)

SkipNonTerminators(s, i) ==
  LET ends == {j \in i..Len(s) : IsTerminator(Ch(s, j))}
  IN IF ends # {} THEN CHOOSE j \in ends : \A o \in ends : j <= o
     ELSE IF i > Len(s) THEN i ELSE Len(s) + 1

\* text.match(/[^.!?]+[.!?]+/g) || [], scanning from index i
RECURSIVE SentencesFrom(_, _)
SentencesFrom(text, i) ==
  LET a == SkipTerminators(text, i)
      b == SkipNonTerminators(text, a)
      c == SkipTerminators(text, b)
  IN IF a > Len(text) \/ b > Len(text) THEN <<>>
     ELSE <<SubSeq(text, a, c - 1)>> \o SentencesFrom(text, c)

Sentences(text) == SentencesFrom(text, 1)

\* x.length > 300 ? x.substring(0, 300) + '...' : x
Truncate(x) ==
  IF Len(x) > SnippetMaxChars THEN SubSeq(x, 1, SnippetMaxChars) \o "..." ELSE x

\* the heuristic path: the first sentence with the highest positive keyword count
HeuristicSnippet(text, query) ==
  LET sentences == Sentences(text)
      queryWords == SelectSeq(Words(Lower(query)), LongerThan3)
      score == Explicit([i \in 1..Len(sentences) |->
                          CountIncluded(Lower(sentences[i]), queryWords)])
      hits == {i \in 1..Len(sentences) : score[i] > 0}
  IN IF hits = {} THEN UNKNOWN_PHRASE
     ELSE LET top == CHOOSE i \in hits :
                       /\ \A j \in hits : score[j] <= score[i]
                       /\ \A j \in hits : j < i => score[j] < score[i]
          IN Truncate(Trim(sentences[top]))

\* the quote characters a completion of the model can hold
IsQuoteCh(c) == c \in {"\"", "'"}

RECURSIVE SkipQuotes(_, _)
SkipQuotes(s, i) == IF i > Len(s) \/ ~IsQuoteCh(Ch(s, i)) THEN i ELSE SkipQuotes(s, i + 1)

RECURSIVE SkipQuotesBack(_, _)
SkipQuotesBack(s, i) == IF i < 1 \/ ~IsQuoteCh(Ch(s, i)) THEN i ELSE SkipQuotesBack(s, i - 1)

\* candidate.replace(/^[quotes]+|[quotes]+$/g, '')
StripQuotes(s) == SubSeq(s, SkipQuotes(s, 1), SkipQuotesBack(s, Len(s)))

\* the phrases by which the model says it found nothing
noPassagePhrases == << "no relevant passage", "no relevant text", "no relevant snippet",
                       "nothing relevant", "no passage exists", "no match" >>

\* /^[^\w]+$/.test(candidate)
OnlyNonWord(s) == Len(s) > 0 /\ \A i \in 1..Len(s) : ~IsWordCh(Ch(s, i))

\* extractRelevantSnippetWithLLM(text, query, maxChars) for a text of one
\* chunk; completion is what openai.chat.completions.create did: it threw, or
\* it answered with a message content (Null when the answer carries none).
\* The completions of the model hold no code fence, which the fence removal
\* would cut out.
extractRelevantSnippetWithLLM(text, completion, maxChars) ==
  IF text = "" \/ Trim(text) = "" THEN ""
  ELSE LET raw == IF completion.kind = "throw" \/ completion.content = Null
                    THEN "" ELSE completion.content
           snippet == Trim(raw)
           unquoted == Trim(StripQuotes(Trim(snippet)))
           candidate == CollapseSpaces(unquoted)
       IN IF snippet = "" THEN UNKNOWN_PHRASE
          ELSE IF \E p \in 1..Len(noPassagePhrases) : IncludesI(candidate, noPassagePhrases[p])
            THEN UNKNOWN_PHRASE
          ELSE IF candidate = "" \/ OnlyNonWord(candidate) THEN UNKNOWN_PHRASE
          ELSE IF Len(candidate) > maxChars THEN Trim(SubSeq(candidate, 1, maxChars))
          ELSE candidate

\* extractRelevantSnippet(text, query, useLLM); llm is the value the
\* LLM-assisted extractor returned ("" when it found nothing or failed)
extractRelevantSnippet(text, query, useLLM, llm) ==
  IF Sentences(text) = <<>> THEN UNKNOWN_PHRASE
  ELSE IF useLLM /\ llm # "" /\ Trim(llm) # "" /\ llm # UNKNOWN_PHRASE
    THEN Truncate(llm)
    ELSE HeuristicSnippet(text, query)

\* the artifact patterns of ENCODING_ARTIFACTS made of printable ASCII
\* ("." in a pattern matches any character)
ENCODING_ARTIFACTS == << "1awp++i1", "1-vvph-l. n-t", "lawphi1.net", "lawphil" >>

PatternAt(s, pat, i) ==
  /\ i + Len(pat) - 1 <= Len(s)
  /\ \A j \in 1..Len(pat) : Ch(pat, j) = "." \/ Ch(pat, j) = Ch(s, i + j - 1)

\* s.replace(pattern, '') with the g flag
RECURSIVE RemovePattern(_, _)
RemovePattern(s, pat) ==
  IF s = "" THEN ""
  ELSE IF PatternAt(s, pat, 1) THEN RemovePattern(SubSeq(s, Len(pat) + 1, Len(s)), pat)
  ELSE Ch(s, 1) \o RemovePattern(Tail(s), pat)

RECURSIVE RemoveArtifactsFrom(_, _)
RemoveArtifactsFrom(s, i) ==
  IF i > Len(ENCODING_ARTIFACTS) THEN s
  ELSE RemoveArtifactsFrom(RemovePattern(s, ENCODING_ARTIFACTS[i]), i + 1)

removeEncodingArtifacts(text) == RemoveArtifactsFrom(text, 1)

\* formatDocument: repairTextEncoding returns its input when the text holds no
\* U+FFFD or control character, then the artifacts are removed
formatDocument(text) == removeEncodingArtifacts(text)

\* .replace(/([.!?])\s+\.\.\./g, '$1')
RECURSIVE DropSpacedEllipsis(_)
DropSpacedEllipsis(s) ==
  IF s = "" THEN ""
  ELSE LET a == SkipSpaces(s, 2)
       IN IF IsTerminator(Ch(s, 1)) /\ a > 2 /\ StartsAt(s, "...", a)
            THEN Ch(s, 1) \o DropSpacedEllipsis(SubSeq(s, a + 3, Len(s)))
            ELSE Ch(s, 1) \o DropSpacedEllipsis(Tail(s))

\* .replace(/"\s+/g, '"')
RECURSIVE DropSpaceAfterQuote(_)
DropSpaceAfterQuote(s) ==
  IF s = "" THEN ""
  ELSE IF Ch(s, 1) = "\""
    THEN "\"" \o DropSpaceAfterQuote(SubSeq(s, SkipSpaces(s, 2), Len(s)))
    ELSE Ch(s, 1) \o DropSpaceAfterQuote(Tail(s))

\* .replace(/\s+"/g, '"')
RECURSIVE DropSpaceBeforeQuote(_)
DropSpaceBeforeQuote(s) ==
  IF s = "" THEN ""
  ELSE LET a == SkipSpaces(s, 1)
       IN IF a > 1 /\ StartsAt(s, "\"", a)
            THEN DropSpaceBeforeQuote(SubSeq(s, a, Len(s)))
            ELSE Ch(s, 1) \o DropSpaceBeforeQuote(Tail(s))

\* a formatter that also lower-cases the snippet
FormatSnippetLowerCased(snippet) == Lower(CollapseSpaces(Trim(snippet)))

\* formatSnippet(snippet)
formatSnippet(snippet) ==
  DropSpaceBeforeQuote(DropSpaceAfterQuote(DropSpacedEllipsis(
    CollapseSpaces(Trim(formatDocument(snippet))))))

(***************************************************************************)
(* Source tokens                                                           *)
(***************************************************************************)
\* template-literal conversion of a value that may be null
Str(x) == IF x = Null THEN "null" ELSE x

\* extractSource(source)
extractSource(source) == "FILE:" \o source.uuid \o "/" \o Str(source.filename) \o ".txt"

\* extractSources(snippets).sources
extractSources(snippets) == [i \in 1..Len(snippets) |-> extractSource(snippets[i])]

\* isUnknownResponse(response)
isUnknownResponse(response) ==
  \/ response = UNKNOWN_PHRASE
  \/ Includes(response, UNKNOWN_PHRASE)
  \/ response = "(no answer)"
  \/ response = ""
  \/ Trim(response) = ""

\* index of the first "/" of s at or after i, Len(s) + 1 when there is none
RECURSIVE SlashFrom(_, _)
SlashFrom(s, i) == IF i > Len(s) \/ Ch(s, i) = "/" THEN i ELSE SlashFrom(s, i + 1)

\* the client's parseFileSource(source): the "_FILE_:" token form, or the
\* fallback with uuid "unknown"
parseFileSource(source) ==
  IF source = Null \/ source = ""
    THEN [uuid |-> "unknown", filename |-> Str(source), url |-> Str(source)]
  ELSE IF StartsAt(source, "_FILE_:", 1)
    THEN LET content == SubSeq(source, Len("_FILE_:") + 1, Len(source))
             cut == SlashFrom(content, 1)
             uuid == SubSeq(content, 1, cut - 1)
             rest == SubSeq(content, cut + 1, Len(content))
         IN [uuid |-> uuid, filename |-> IF rest = "" THEN uuid ELSE rest,
             url |-> "/api/file/" \o uuid]
    ELSE [uuid |-> "unknown", filename |-> source, url |-> source]

(***************************************************************************)
(* decideSearchByTitle(query)                                              *)
(***************************************************************************)
\* the alternatives of each idPatterns regex, in source order; "X No\.?" is
\* listed as "X No" and "X No."
idPatterns == <<
  << "G.R.", "GR", "G R.", "General Registry Number" >>,
  << "R.A.", "RA", "Republic Act", "Republic Act No", "Republic Act No." >>,
  << "C.A.", "CA", "Commonwealth Act", "Commonwealth Act No", "Commonwealth Act No." >>,
  << "P.D.", "PD", "Presidential Decree", "Presidential Decree No", "Presidential Decree No." >>,
  << "A.O.", "AO", "Administrative Order", "Administrative Order No", "Administrative Order No." >>,
  << "B.P.", "BP", "Batas Pambansa", "Batas Pambansa No", "Batas Pambansa No." >>,
  << "M.C.", "MC", "Memorandum Circular", "Memorandum Circular No", "Memorandum Circular No." >>,
  << "A.M.", "AM", "Administrative Matter", "Administrative Matter No", "Administrative Matter No." >>,
  << "E.O.", "EO", "Executive Order", "Executive Order No", "Executive Order No." >>,
  << "L.O.", "LO", "Legislative Order", "Legislative Order No", "Legislative Order No." >>,
  << "M.O.", "MO", "Memorandum Order", "Memorandum Order No", "Memorandum Order No." >>,
  << "I.D.", "ID", "Internal Directive", "Internal Directive No", "Internal Directive No." >>,
  << "J.A.", "JA", "Judicial Affidavit", "Judicial Affidavit No", "Judicial Affidavit No." >>,
  << "S.R.O.", "SRO", "Supreme Court Resolution Order", "Supreme Court Resolution Order No",
     "Supreme Court Resolution Order No." >>,
  << "R.S.", "RS", "Republic Statute", "Republic Statute No", "Republic Statute No." >>,
  << "C.A.R.", "CAR", "Court Administrative Rules", "Court Administrative Rules No",
     "Court Administrative Rules No." >> >>

\* (?=\s|$|[\.,:;]) at index j
IdLookahead(s, j) == j > Len(s) \/ Ch(s, j) \in {" ", ".", ",", ":", ";"}

\* p.regex.test(s): \b, one alternative, the lookahead; the trailing group is
\* optional
IdPatternTest(s, alts) ==
  \E i \in 1..Len(s) :
    /\ WordBoundary(s, i)
    /\ \E a \in 1..Len(alts) :
         StartsAtI(s, alts[a], i) /\ IdLookahead(s, i + Len(alts[a]))

\* a decision that does not look for a comma
DecideWithoutCommaRule(q) ==
  [ok |-> TRUE,
   isTitle |-> q # "" /\ \E p \in 1..Len(idPatterns) : IdPatternTest(Trim(q), idPatterns[p])]

decideSearchByTitle(q) ==
  IF q = "" THEN [ok |-> TRUE, isTitle |-> FALSE]
  ELSE LET s == Trim(q)
       IN IF Includes(s, ",") THEN [ok |-> TRUE, isTitle |-> FALSE]
          ELSE [ok |-> TRUE,
                isTitle |-> \E p \in 1..Len(idPatterns) : IdPatternTest(s, idPatterns[p])]

(***************************************************************************)
(* State                                                                   *)
(***************************************************************************)
VARIABLES
  mode,          \* entry point: "direct" (a caller of searchNearest),
                 \* "search" (handleSearch), "qa" (handleQA)
  query,         \* the query of the request
  store,         \* documents present in the embedding store
  dbDim,         \* Number(process.env.DOWNSAMPLE_DIM); 0 when unset (the
                 \* handlers run with it set)
  ragToday,      \* Date.parse(process.env.RAG_TODAY); NoDate when unset (the
                 \* handlers run with it set)
  useLLMSnippet, \* USE_LLM_SNIPPET
  dayCount,      \* daily_api_counters.count of the current day
  pc,            \* position of the request
  hstate,        \* handler: "none", "waiting" (inside withTimeout), "done"
  snQuery,       \* searchNearest arguments: query, k, opts
  snK,
  snOpts,
  variants,      \* searchNearest locals
  vi,
  titleFilterParam,
  embeddingArr,  \* what getQueryEmbedding answered: [kind, vec]
  embeddingToUse,
  rows,
  stage,         \* which query produced rows: "none", "exact", "id", "type", "vector"
  snResult,      \* [status |-> "pending" | "ok" | "error", value, error]
  calls,         \* external calls searchNearest has issued, in order
  readFailed,    \* positions of rows whose fs.readFile threw
  callRows,      \* per entry of calls: the number of rows it returned (-1: it threw)
  scored,        \* fetchRelevantMatches: the scoreMatches result
  snippets,      \* formatted snippet per candidate of the extraction loop
  items,         \* fetchRelevantMatches: items with a reliable snippet
  frResult,      \* what fetchRelevantMatches returned / threw
  qaSources,     \* answerQuestion: its local sources list
  qaResult,      \* what answerQuestion returned
  sent,          \* messages sent on the socket, in order
  libCall,       \* a library function applied on its own: its name and arguments
  libRet,        \* the value that application returned
  libHeap,       \* the array objects of that application
  libPc,         \* "off", "ready", "returned", "written"
  rsPlan,        \* researcherExecutePlan: its plan argument
  rsIdx,         \* searchIdx of the loop over filteredSearches (1-based)
  rsSeen,        \* the Map seen, as its values in insertion order
  rsCitations,   \* the Set allCitations, in insertion order
  rsCi,          \* searchCitations: position in citations.slice(0, 5)
  rsCitationHits,\* searchCitations: citationHits
  rsSurfaced,    \* every hit that reached a seen.has check, in order
  rsPc,          \* researcherExecutePlan: "off", "loop", "cite", "done"
  rsResult,      \* what researcherExecutePlan returned / threw
  rdRows,        \* body loads of one searchNearest call: the candidate rows
  rdQueue,       \* pLimit: the queued tasks, by row position
  rdActive,      \* pLimit: the tasks that run (activeCount is their number)
  rdResults,     \* per row position: the object its task resolved with
  rdPc,          \* "off", "loading", "done"
  rdOut,         \* what Promise.all resolved with
  rlDb,          \* the session of the shared pgClient and daily_api_counters:
                 \* [up, txn, committed, work]
  rlMem,         \* _fallbackCounts.get(key) || 0
  rlPc,          \* per tryConsume call: its position
  rlCur,         \* per tryConsume call: its local cur
  rlRet,         \* per tryConsume call: "none", "true", "false"
  rlHist,        \* [outage, overlap]: the database failed / two calls overlapped
  anQuery,       \* handlePerspectiveAnalysis: the query of the request
  anCount,       \* daily_api_counters.count when the request arrives
  anH,           \* the handler: "off", "start", "waiting", "done"
  anPipe,        \* analysisPromise: "off", "plan", "research", "present",
                 \* "resolved", "rejected"
  anAnswer,      \* what presenterPresent returned
  anSent,        \* messages the request sent on the socket, in order
  clSock,        \* browser client: readyState of every WebSocket it created
                 \* ("none" before its creation)
  clReqs,        \* per socket: the requests the server has not answered yet
  clWs,          \* the variable ws (0: null)
  clTimer,       \* reconnectTimer is set
  clRateLimited, \* the flag rateLimited
  clPending,     \* the keys of the Map pending, in insertion order
  clResolveFor,  \* the wsReadyPromise that wsReadyResolve resolves (0: null)
  clResolved,    \* the wsReadyPromises that are resolved
  clWait,        \* sendMessage calls inside await ensureWsOpen()
  clLast,        \* the last event the client handled
  clAfterLimit   \* [opened, sent]: done while rateLimited was set

inputVars == << mode, query, store, dbDim, ragToday, useLLMSnippet >>
snVars == << snQuery, snK, snOpts, variants, vi, titleFilterParam, embeddingArr, embeddingToUse,
             rows, stage, snResult, calls, readFailed, callRows >>
pipeVars == << scored, snippets, items, frResult, qaSources, qaResult >>
handlerVars == << dayCount, hstate, sent >>
libVars == << libCall, libRet, libHeap, libPc >>
\* the components that take no part in a request
rsVars == << rsPlan, rsIdx, rsSeen, rsCitations, rsCi, rsCitationHits, rsSurfaced, rsPc,
            rsResult >>
rdVars == << rdRows, rdQueue, rdActive, rdResults, rdPc, rdOut >>
rlVars == << rlDb, rlMem, rlPc, rlCur, rlRet, rlHist >>
anVars == << anQuery, anCount, anH, anPipe, anAnswer, anSent >>
clVars == << clSock, clReqs, clWs, clTimer, clRateLimited, clPending, clResolveFor,
            clResolved, clWait, clLast, clAfterLimit >>
offVars == << libVars, rsVars, rdVars, rlVars, anVars, clVars >>
vars == << inputVars, snVars, pipeVars, handlerVars, pc, offVars >>

\* queries of the model: empty, blank, abbreviated identifier, full title,
\* descriptive, and an identifier inside a sentence with a comma
Queries == { "", "   ", "RA 1061", "Republic Act No. 1061",
             "negligence in maritime contracts", "RA 1061, as amended" }

\* stores of the model: up to MaxStore documents of the corpus
MaxStore == 2
Stores == {S \in SUBSET DocIds : Cardinality(S) <= MaxStore}

\* reference date used when RAG_TODAY is set
RagTodayValue == 2000

\* what the embeddings endpoint can answer: an error, a body without an
\* embedding, or an embedding of some length
EmbeddingResponses ==
  { [kind |-> "throw", vec |-> <<>>],
    [kind |-> "null", vec |-> <<>>],
    [kind |-> "vector", vec |-> <<>>],
    [kind |-> "vector", vec |-> [i \in 1..(StoreDim - 1) |-> i]],
    [kind |-> "vector", vec |-> [i \in 1..StoreDim |-> i]],
    [kind |-> "vector", vec |-> [i \in 1..(StoreDim + 1) |-> i]] }

NoEmbeddingYet == [kind |-> "none", vec |-> <<>>]

\* searchNearest's locals once its frame is gone
NoLocals ==
  /\ variants' = <<>>
  /\ vi' = 1
  /\ titleFilterParam' = Null
  /\ embeddingArr' = NoEmbeddingYet
  /\ embeddingToUse' = <<>>
  /\ rows' = <<>>

NoResult == [status |-> "pending", value |-> <<>>, error |-> ""]
Returned(v) == [status |-> "ok", value |-> v, error |-> ""]
Thrown(e) == [status |-> "error", value |-> <<>>, error |-> e]

NoFr == [status |-> "pending", matches |-> <<>>,
         answer |-> [head |-> "", summaries |-> <<>>], originalMatches |-> <<>>]
NoQa == [status |-> "pending", answer |-> "", sources |-> <<>>, matches |-> <<>>]

NoCall == [fn |-> "none"]

\* no library function is applied on its own while a request runs
LibIdle == libCall = NoCall /\ libRet = Null /\ libHeap = << >> /\ libPc = "off"

\* researcherExecutePlan is not running
ResearcherIdle ==
  /\ rsPlan = <<>>
  /\ rsIdx = 1
  /\ rsSeen = <<>>
  /\ rsCitations = <<>>
  /\ rsCi = 1
  /\ rsCitationHits = <<>>
  /\ rsSurfaced = <<>>
  /\ rsPc = "off"
  /\ rsResult = NoResult

\* no body load is modelled step by step
ReadsIdle ==
  /\ rdRows = <<>>
  /\ rdQueue = <<>>
  /\ rdActive = {}
  /\ rdResults = <<>>
  /\ rdPc = "off"
  /\ rdOut = <<>>

\* no tryConsume call is modelled step by step
LimiterIdle ==
  /\ rlDb = [up |-> TRUE, txn |-> "none", committed |-> 0, work |-> 0]
  /\ rlMem = 0
  /\ rlPc = <<>>
  /\ rlCur = <<>>
  /\ rlRet = <<>>
  /\ rlHist = [outage |-> FALSE, overlap |-> FALSE]

\* no perspective analysis is requested
AnalysisIdle ==
  /\ anQuery = ""
  /\ anCount = 0
  /\ anH = "off"
  /\ anPipe = "off"
  /\ anAnswer = ""
  /\ anSent = <<>>

NoEvent == [ev |-> "none", q |-> ""]

\* no browser client is modelled
ClientIdle ==
  /\ clSock = <<>>
  /\ clReqs = <<>>
  /\ clWs = 0
  /\ clTimer = FALSE
  /\ clRateLimited = FALSE
  /\ clPending = <<>>
  /\ clResolveFor = 0
  /\ clResolved = {}
  /\ clWait = <<>>
  /\ clLast = NoEvent
  /\ clAfterLimit = [opened |-> FALSE, sent |-> FALSE]

Init ==
  /\ LibIdle
  /\ ResearcherIdle
  /\ ReadsIdle
  /\ LimiterIdle
  /\ AnalysisIdle
  /\ ClientIdle
  /\ mode \in {"direct", "search", "qa"}
  /\ query \in Queries
  /\ store \in Stores
  /\ dbDim \in (IF mode = "direct" THEN {0, StoreDim} ELSE {StoreDim})
  /\ ragToday \in (IF mode = "direct" THEN {NoDate, RagTodayValue} ELSE {RagTodayValue})
  /\ useLLMSnippet \in (IF mode = "qa" THEN BOOLEAN ELSE {FALSE})
  /\ dayCount \in (IF mode = "direct" THEN {0} ELSE {HardLimit - 1, HardLimit})
  /\ pc = IF mode = "direct" THEN "sn_start" ELSE "h_start"
  /\ hstate = "none"
  /\ snQuery = IF mode = "direct" THEN query ELSE ""
  /\ snK \in (IF mode = "direct" THEN 1..MaxK ELSE {MAX_MATCHES})
  /\ snOpts \in (IF mode = "direct"
                   THEN [searchByTitle : BOOLEAN, allowDownsample : BOOLEAN]
                   ELSE {[searchByTitle |-> FALSE, allowDownsample |-> TRUE]})
  /\ variants = <<>>
  /\ vi = 1
  /\ titleFilterParam = Null
  /\ embeddingArr = NoEmbeddingYet
  /\ embeddingToUse = <<>>
  /\ rows = <<>>
  /\ stage = "none"
  /\ snResult = NoResult
  /\ calls = <<>>
  /\ readFailed = {}
  /\ callRows = <<>>
  /\ scored = <<>>
  /\ snippets = <<>>
  /\ items = <<>>
  /\ frResult = NoFr
  /\ qaSources = <<>>
  /\ qaResult = NoQa
  /\ sent = <<>>

(***************************************************************************)
(* searchNearest(query, k, opts)                                           *)
(***************************************************************************)
\* searchByTitleRaw: String(query).trim() when opts.searchByTitle === true
searchByTitleRaw == IF snOpts.searchByTitle THEN Trim(snQuery) ELSE Null

\* a check for null only, which lets the empty string through
IsNullish(q) == q = Null

\* !query || query === ''
IsFalsy(q) == q = ""

\* a stage that needs more than one row to count as a hit
CascadeHitAboveOne(r) == Len(r) > 1

\* exactRes?.rows?.length (and idRes, typeRes): the stage found rows
CascadeHit(r) == Len(r) > 0

\* if (!query || query === '') return []; then the branch on searchByTitleRaw
SearchNearestEntry ==
  /\ pc = "sn_start"
  /\ IF IsFalsy(snQuery)
       THEN /\ snResult' = Returned(<<>>)
            /\ pc' = "sn_done"
            /\ UNCHANGED variants
       ELSE IF searchByTitleRaw # Null /\ searchByTitleRaw # ""
         THEN /\ variants' = generateTitleVariants(searchByTitleRaw)
              /\ pc' = "sn_exact"
              /\ UNCHANGED snResult
         ELSE /\ pc' = "sn_embed"
              /\ UNCHANGED << variants, snResult >>
  /\ UNCHANGED << offVars, callRows, readFailed, inputVars, pipeVars, handlerVars, snQuery, snK, snOpts, vi,
                  titleFilterParam, embeddingArr, embeddingToUse, rows, stage, calls >>

\* whereClause / titleFilterParam once no cascade stage matched
ChosenTitleFilter ==
  LET best == chooseBestTitleVariant(variants)
  IN IF best = Null \/ best = "" THEN searchByTitleRaw ELSE best

\* one pgClient.query(exactSql, [v, k]) of the loop over variants
ExactQuery ==
  /\ pc = "sn_exact"
  /\ calls' = Append(calls, "exact")
  /\ \/ /\ snResult' = Thrown("store")
        /\ callRows' = Append(callRows, 0 - 1)
        /\ pc' = "sn_done"
        /\ UNCHANGED << rows, stage, vi >>
     \/ \E r \in LimitResults({i \in store : ExactTitleMatch(Corpus[i], variants[vi])}, snK) :
          /\ callRows' = Append(callRows, Len(r))
          /\ IF CascadeHit(r)
            THEN /\ rows' = SortByDate(r, ragToday)
                 /\ stage' = "exact"
                 /\ pc' = "sn_read"
                 /\ UNCHANGED << snResult, vi >>
            ELSE /\ IF vi < Len(variants)
                      THEN vi' = vi + 1 /\ pc' = pc
                      ELSE vi' = 1 /\ pc' = "sn_id"
                 /\ UNCHANGED << snResult, rows, stage >>
  /\ UNCHANGED << offVars, readFailed, inputVars, pipeVars, handlerVars, snQuery, snK, snOpts, variants,
                  titleFilterParam, embeddingArr, embeddingToUse >>

\* one pgClient.query(idSql, [v, k]) of the second loop over variants
IdQuery ==
  /\ pc = "sn_id"
  /\ calls' = Append(calls, "id")
  /\ \/ /\ snResult' = Thrown("store")
        /\ callRows' = Append(callRows, 0 - 1)
        /\ pc' = "sn_done"
        /\ UNCHANGED << rows, stage, vi, titleFilterParam >>
     \/ \E r \in LimitResults({i \in store : NormalizedTitleMatch(Corpus[i], variants[vi])}, snK) :
          /\ callRows' = Append(callRows, Len(r))
          /\ IF CascadeHit(r)
            THEN /\ rows' = SortByDate(r, ragToday)
                 /\ stage' = "id"
                 /\ pc' = "sn_read"
                 /\ UNCHANGED << snResult, vi, titleFilterParam >>
            ELSE /\ IF vi < Len(variants)
                      THEN /\ vi' = vi + 1
                           /\ pc' = pc
                           /\ UNCHANGED titleFilterParam
                      ELSE /\ vi' = 1
                           /\ IF extractTypeEvidence(searchByTitleRaw).ok
                                THEN pc' = "sn_type" /\ UNCHANGED titleFilterParam
                                ELSE /\ pc' = "sn_embed"
                                     /\ titleFilterParam' = ChosenTitleFilter
                 /\ UNCHANGED << snResult, rows, stage >>
  /\ UNCHANGED << offVars, readFailed, inputVars, pipeVars, handlerVars, snQuery, snK, snOpts, variants,
                  embeddingArr, embeddingToUse >>

\* pgClient.query(typeSql, [pair.type, pair.evidence, k])
TypeQuery ==
  /\ pc = "sn_type"
  /\ calls' = Append(calls, "type")
  /\ \/ /\ snResult' = Thrown("store")
        /\ callRows' = Append(callRows, 0 - 1)
        /\ pc' = "sn_done"
        /\ UNCHANGED << rows, stage, titleFilterParam >>
     \/ \E pair \in {extractTypeEvidence(searchByTitleRaw)} :
        \E r \in LimitResults({i \in store : TypeEvidenceMatch(Corpus[i], pair)}, snK) :
          /\ callRows' = Append(callRows, Len(r))
          /\ IF CascadeHit(r)
            THEN /\ rows' = SortByDate(r, ragToday)
                 /\ stage' = "type"
                 /\ pc' = "sn_read"
                 /\ UNCHANGED << snResult, titleFilterParam >>
            ELSE /\ pc' = "sn_embed"
                 /\ titleFilterParam' = ChosenTitleFilter
                 /\ UNCHANGED << snResult, rows, stage >>
  /\ UNCHANGED << offVars, readFailed, inputVars, pipeVars, handlerVars, snQuery, snK, snOpts, variants, vi,
                  embeddingArr, embeddingToUse >>

\* getQueryEmbedding(text): res?.data?.[0]?.embedding ?? null, or the error of
\* openai.embeddings.create
getQueryEmbedding(res) == res

\* a check for null only, which lets the empty vector through
NullEmbedding(e) == e.kind = "null"

\* !embeddingArr || embeddingArr.length === 0
NoEmbedding(e) == e.kind = "null" \/ Len(e.vec) = 0

\* a check that only sees embeddings longer than the store dimension
DimensionExceeds(len, dim) == dim # 0 /\ len > dim

\* dbDim && embeddingArr.length !== dbDim
DimensionMismatch(len, dim) == dim # 0 /\ len # dim

\* opts.allowDownsample !== false
allowDownsampleQuery == snOpts.allowDownsample

\* await getQueryEmbedding(query), the null/empty check, the dimension check
\* and the downsampling
Embed ==
  /\ pc = "sn_embed"
  /\ calls' = Append(calls, "embed")
  /\ callRows' = Append(callRows, 0)
  /\ \E res \in EmbeddingResponses :
       /\ embeddingArr' = getQueryEmbedding(res)
       /\ IF embeddingArr'.kind = "throw"
            THEN /\ snResult' = Thrown("embedding")
                 /\ pc' = "sn_done"
                 /\ UNCHANGED embeddingToUse
            ELSE IF NoEmbedding(embeddingArr')
              THEN /\ snResult' = Returned(<<>>)
                   /\ pc' = "sn_done"
                   /\ UNCHANGED embeddingToUse
              ELSE IF DimensionMismatch(Len(embeddingArr'.vec), dbDim)
                THEN IF ~allowDownsampleQuery
                       THEN /\ snResult' = Thrown("dimension")
                            /\ pc' = "sn_done"
                            /\ UNCHANGED embeddingToUse
                       ELSE /\ embeddingToUse' = downsampleEmbedding(embeddingArr'.vec, dbDim)
                            /\ pc' = "sn_vector"
                            /\ UNCHANGED snResult
                ELSE /\ embeddingToUse' = embeddingArr'.vec
                     /\ pc' = "sn_vector"
                     /\ UNCHANGED snResult
  /\ UNCHANGED << offVars, readFailed, inputVars, pipeVars, handlerVars, snQuery, snK, snOpts, variants, vi,
                  titleFilterParam, rows, stage >>

\* pgClient.query(sql, params): the store rejects a vector whose length is not
\* the stored dimension; otherwise the k nearest rows, re-sorted by date
VectorQuery ==
  /\ pc = "sn_vector"
  /\ calls' = Append(calls, "vector")
  /\ \/ /\ snResult' = Thrown("store")
        /\ callRows' = Append(callRows, 0 - 1)
        /\ pc' = "sn_done"
        /\ UNCHANGED << rows, stage >>
     \/ /\ Len(embeddingToUse) = StoreDim
        /\ \E r \in NearestResults(
                      IF titleFilterParam # Null
                        THEN {i \in store : TitleFilterMatch(Corpus[i], titleFilterParam)}
                        ELSE store, snK) :
             /\ callRows' = Append(callRows, Len(r))
             /\ rows' = SortByDateThenDist(r, ragToday)
             /\ stage' = "vector"
             /\ pc' = "sn_read"
             /\ UNCHANGED snResult
  /\ UNCHANGED << offVars, readFailed, inputVars, pipeVars, handlerVars, snQuery, snK, snOpts, variants, vi,
                  titleFilterParam, embeddingArr, embeddingToUse >>

\* a loader whose reads cannot fail
LoadedRowAlwaysRead(r, failed) ==
  [uuid |-> r.uuid, filename |-> r.filename, relative_path |-> r.relative_path,
   date |-> r.date,
   text |-> IF r.filename = Null THEN Null ELSE Corpus[DocOf(r.uuid)].body]

\* the object built for row r; failed = fs.readFile threw
LoadedRow(r, failed) ==
  [uuid |-> r.uuid, filename |-> r.filename, relative_path |-> r.relative_path,
   date |-> r.date,
   text |-> IF r.filename = Null \/ failed THEN Null ELSE Corpus[DocOf(r.uuid)].body]

\* Promise.all(rows.map(r => limit(async () => {...}))): every body load, each
\* of which may fail, and the return of the loaded rows in row order
ReadFiles ==
  /\ pc = "sn_read"
  /\ \E failed \in SUBSET {i \in 1..Len(rows) : rows[i].filename # Null} :
       /\ readFailed' = failed
       /\ snResult' = Returned([i \in 1..Len(rows) |-> LoadedRow(rows[i], i \in failed)])
  /\ pc' = "sn_done"
  /\ UNCHANGED << offVars, callRows, inputVars, pipeVars, handlerVars, snQuery, snK, snOpts, variants, vi,
                  titleFilterParam, embeddingArr, embeddingToUse, rows, stage, calls >>


(***************************************************************************)
(* Rate limiter, as the handlers use it                                    *)
(***************************************************************************)
getLimit == HardLimit

\* getRemaining(): Math.max(0, limit - count)
getRemaining(count) == IF getLimit - count > 0 THEN getLimit - count ELSE 0

\* tryConsume(): the count after the call and whether a slot was consumed
tryConsume(count) ==
  IF count >= getLimit THEN [count |-> count, ok |-> FALSE]
  ELSE [count |-> count + 1, ok |-> TRUE]

ErrorMsg(code, message) == [type |-> "error", code |-> code, message |-> message]
StatusMsg(message) == [type |-> "status", message |-> message]

\* the handlers' prologue: query check, getRemaining, tryConsume, sendStatus
HandlerEntry(status, nextPc) ==
  /\ pc = "h_start"
  /\ IF query = "" \/ Trim(query) = ""
       THEN /\ sent' = Append(sent, ErrorMsg("", "query required"))
            /\ pc' = "done"
            /\ UNCHANGED << dayCount, hstate >>
       ELSE IF getRemaining(dayCount) <= 0 \/ ~tryConsume(dayCount).ok
         THEN /\ sent' = Append(sent, ErrorMsg("RATE_LIMIT", "Daily request limit reached"))
              /\ pc' = "done"
              /\ UNCHANGED << dayCount, hstate >>
         ELSE /\ dayCount' = tryConsume(dayCount).count
              /\ sent' = Append(sent, StatusMsg(status))
              /\ hstate' = "waiting"
              /\ pc' = nextPc
  /\ UNCHANGED << offVars, callRows, inputVars, snVars, pipeVars >>

\* the timer of withTimeout(promise, ms) wins the race: the handler's catch
\* block sends an error; the promise keeps running unobserved
HandlerTimeout ==
  /\ hstate = "waiting"
  /\ pc # "done"
  /\ hstate' = "done"
  /\ sent' = Append(sent,
       IF mode = "qa" THEN ErrorMsg("", "QA timeout")
       ELSE ErrorMsg("", "Internal server error"))
  /\ UNCHANGED << offVars, callRows, inputVars, snVars, pipeVars, dayCount, pc >>

(***************************************************************************)
(* Search: handleSearch and fetchRelevantMatches                           *)
(***************************************************************************)
handleSearchEntry == mode = "search" /\ HandlerEntry("Searching", "fr_decide")

\* decideSearchByTitle, then the call searchNearest(query, MAX_MATCHES,
\* {searchByTitle}); decision.ok is always true, so the extractLawName
\* fallback is never taken
FetchDecide ==
  /\ pc = "fr_decide"
  /\ \E decision \in {decideSearchByTitle(query)} :
     LET shouldUseTitleFlag == decision.ok /\ decision.isTitle
     IN /\ snQuery' = query
        /\ snK' = MAX_MATCHES
        /\ snOpts' = [searchByTitle |-> shouldUseTitleFlag, allowDownsample |-> TRUE]
  /\ pc' = "sn_start"
  /\ UNCHANGED << offVars, callRows, readFailed, inputVars, pipeVars, handlerVars, variants, vi, titleFilterParam,
                  embeddingArr, embeddingToUse, rows, stage, snResult, calls >>

FrReturn(matches, head, summaries, originalMatches) ==
  [status |-> "ok", matches |-> matches,
   answer |-> [head |-> head, summaries |-> summaries],
   originalMatches |-> originalMatches]
FrThrown == [status |-> "error", matches |-> <<>>,
             answer |-> [head |-> "Failed to fetch relevant matches.", summaries |-> <<>>],
             originalMatches |-> <<>>]

\* formatSnippet(extractRelevantSnippet(match.text || '', query, false))
SearchSnippet(match) ==
  formatSnippet(extractRelevantSnippet(TextOrEmpty(match), query, FALSE, ""))

\* a loop without the UNKNOWN_PHRASE check: one item per scored match
BuildItemsUnfiltered(sc, snips) ==
  [p \in 1..Len(sc) |->
     [snippet |-> snips[p], fileUrl |-> extractSource(sc[p]),
      originalIndex |-> p - 1, originalMatch |-> sc[p]]]

\* the items of the loop: one per scored match whose snippet is reliable
BuildItems(sc, snips) ==
  LET keep == SelectSeq([i \in 1..Len(sc) |-> i], LAMBDA i : snips[i] # UNKNOWN_PHRASE)
  IN [p \in 1..Len(keep) |->
        [snippet |-> snips[keep[p]], fileUrl |-> extractSource(sc[keep[p]]),
         originalIndex |-> keep[p] - 1, originalMatch |-> sc[keep[p]]]]

\* the summary string of an item, as the fields it is built from
Summary(it) == [snippet |-> it.snippet, fileUrl |-> it.fileUrl]

\* the part of fetchRelevantMatches after searchNearest settled, up to the
\* interpretMatchesWithLLM call
FetchScore ==
  /\ mode = "search"
  /\ pc = "sn_done"
  /\ IF snResult.status = "error"
       THEN /\ frResult' = FrThrown
            /\ pc' = "fr_done"
            /\ UNCHANGED << scored, snippets, items >>
       ELSE \E matches \in {snResult.value},
               sc \in {Explicit(scoreMatches(snResult.value, query, MAX_MATCHES))} :
            \E snips \in {Explicit([i \in 1..Len(sc) |-> SearchSnippet(sc[i])])} :
            \E its \in {Explicit(BuildItems(sc, snips))} :
               IF Len(matches) = 0
                 THEN /\ frResult' = FrReturn(<<>>, "No relevant documents found.", <<>>, <<>>)
                      /\ pc' = "fr_done"
                      /\ UNCHANGED << scored, snippets, items >>
                 ELSE IF Len(sc) = 0
                   THEN /\ frResult' = FrReturn(<<>>,
                             "No relevant documents found after filtering.", <<>>, <<>>)
                        /\ pc' = "fr_done"
                        /\ UNCHANGED << scored, snippets, items >>
                   ELSE /\ scored' = sc
                        /\ snippets' = snips
                        /\ items' = its
                        /\ IF Len(its) = 0
                             THEN /\ frResult' = FrReturn(<<>>,
                                       "No relevant documents found.", <<>>, <<>>)
                                  /\ pc' = "fr_done"
                             ELSE /\ pc' = "fr_interpret"
                                  /\ UNCHANGED frResult
  /\ NoLocals
  /\ UNCHANGED << offVars, callRows, readFailed, inputVars, handlerVars, qaSources, qaResult, snQuery, snK, snOpts, stage,
                  snResult, calls >>

\* interpretation.brief values of the model ('' when the model gave none)
Briefs == { "", "Summary of the documents." }

\* interpretMatchesWithLLM, mapParsedToIndexes (any set of item indexes), the
\* filtering and the return
FetchInterpret ==
  /\ pc = "fr_interpret"
  /\ \E recommendedIndexSet \in SUBSET (1..Len(items)), brief \in Briefs :
       LET keptIdx == IF recommendedIndexSet # {}
                        THEN SelectSeq([i \in 1..Len(items) |-> i],
                                       LAMBDA i : i \in recommendedIndexSet)
                        ELSE [i \in 1..Len(items) |-> i]
           filteredScored == [p \in 1..Len(keptIdx) |-> items[keptIdx[p]].originalMatch]
           filteredSummaries == [p \in 1..Len(keptIdx) |-> Summary(items[keptIdx[p]])]
       IN frResult' = FrReturn(filteredScored, brief, filteredSummaries, scored)
  /\ pc' = "fr_done"
  /\ UNCHANGED << offVars, callRows, inputVars, snVars, handlerVars, scored, snippets, items, qaSources,
                  qaResult >>

\* handleSearch after fetchRelevantMatches settled: the answer message or the
\* catch block; nothing more is sent once the timeout has been reported
handleSearchSend ==
  /\ mode = "search"
  /\ pc = "fr_done"
  /\ pc' = "done"
  /\ IF hstate = "waiting"
       THEN /\ hstate' = "done"
            /\ sent' = Append(sent,
                 IF frResult.status = "error"
                   THEN ErrorMsg("", "Internal server error")
                   ELSE [type |-> "answer", question |-> query, answer |-> frResult.answer,
                         sources |-> extractSources(frResult.matches)])
       ELSE UNCHANGED << hstate, sent >>
  /\ UNCHANGED << offVars, callRows, inputVars, snVars, pipeVars, dayCount >>


(***************************************************************************)
(* QA: handleQA and answerQuestion                                         *)
(***************************************************************************)
handleQAEntry == mode = "qa" /\ HandlerEntry("Thinking", "qa_reform")

QaReturn(answer, sources, matches) ==
  [status |-> "ok", answer |-> answer, sources |-> sources, matches |-> matches]

\* what reformulateQuestion can return: the model's sentence, or the trimmed
\* original when the call failed or answered nothing
Reformulations(original) == { Trim(original), "negligence in maritime contracts" }

\* the 'question required' check, reformulateQuestion and the call
\* searchNearest(searchQuery, k) with k = 5 and no options
AnswerReformulate ==
  /\ pc = "qa_reform"
  /\ IF query = "" \/ Trim(query) = ""
       THEN /\ qaResult' = [status |-> "error", answer |-> "question required",
                            sources |-> <<>>, matches |-> <<>>]
            /\ pc' = "qa_done"
            /\ UNCHANGED << snQuery, snK, snOpts >>
       ELSE /\ \E searchQuery \in Reformulations(query) : snQuery' = searchQuery
            /\ snK' = 5
            /\ snOpts' = [searchByTitle |-> FALSE, allowDownsample |-> TRUE]
            /\ pc' = "sn_start"
            /\ UNCHANGED qaResult
  /\ UNCHANGED << offVars, callRows, readFailed, inputVars, handlerVars, scored, snippets, items, frResult, qaSources,
                  variants, vi,
                  titleFilterParam, embeddingArr, embeddingToUse, rows, stage, snResult, calls >>

\* what the LLM-assisted extractor can hand back ("" when it found nothing)
LlmSnippets == << "", "Quoted by the model." >>

\* formatSnippet(extractRelevantSnippet(m.text || '', question)) for each match
\* and each value the LLM-assisted extractor can hand back
QaSnippetTable(matches, question, useLLM) ==
  Explicit([i \in 1..Len(matches) |->
     Explicit([c \in 1..(IF useLLM THEN Len(LlmSnippets) ELSE 1) |->
        formatSnippet(extractRelevantSnippet(TextOrEmpty(matches[i]), question,
                                             useLLM, LlmSnippets[c]))])])

\* the entries of sources: one per match whose snippet is not UNKNOWN_PHRASE
BuildSources(matches, snips) ==
  LET keep == SelectSeq([i \in 1..Len(matches) |-> i], LAMBDA i : snips[i] # UNKNOWN_PHRASE)
  IN [p \in 1..Len(keep) |->
        [fileUrl |-> extractSource(matches[keep[p]]), uuid |-> matches[keep[p]].uuid,
         filename |-> matches[keep[p]].filename]]

\* answerQuestion after searchNearest settled: the catch of a failed search,
\* the snippet loop over the matches and the no-context short-circuit
AnswerExtract ==
  /\ mode = "qa"
  /\ pc = "sn_done"
  /\ IF snResult.status = "error"
       THEN /\ qaResult' = QaReturn(UNKNOWN_PHRASE, <<>>, <<>>)
            /\ pc' = "qa_done"
            /\ UNCHANGED << snippets, qaSources >>
       ELSE \E matches \in {snResult.value},
               table \in {QaSnippetTable(snResult.value, query, useLLMSnippet)} :
            \E llm \in [1..Len(matches) ->
                          IF useLLMSnippet THEN 1..Len(LlmSnippets) ELSE {1}] :
            \E snips \in {Explicit([i \in 1..Len(matches) |-> table[i][llm[i]]])} :
            \E sources \in {Explicit(BuildSources(matches, snips))} :
                    /\ snippets' = snips
                    /\ qaSources' = sources
                    /\ IF Len(sources) = 0
                         THEN /\ qaResult' = QaReturn(UNKNOWN_PHRASE, <<>>, <<>>)
                              /\ pc' = "qa_done"
                         ELSE /\ pc' = "qa_llm"
                              /\ UNCHANGED qaResult
  /\ NoLocals
  /\ UNCHANGED << offVars, callRows, readFailed, inputVars, handlerVars, scored, items, frResult, snQuery, snK, snOpts,
                  stage, snResult, calls >>

\* message.content of the completion; Null when the completion carries none
LlmContents == { Null, "", "  ", UNKNOWN_PHRASE, "It depends on the contract." }

\* the token of a source in the returned sources list
FileUrl(src) ==
  "_FILE_:" \o src.uuid \o "/" \o
    (IF src.filename = Null \/ src.filename = "" THEN src.uuid ELSE src.filename)

\* the chat completion (which may fail), the normalisation of its text and the
\* return; the answers of the model hold no markdown link, so
\* renumberInlineCitations leaves them unchanged
AnswerLLM ==
  /\ pc = "qa_llm"
  /\ \/ qaResult' = QaReturn(UNKNOWN_PHRASE, <<>>, snResult.value)
     \/ \E content \in LlmContents :
          LET raw == IF content = Null THEN "(no answer)" ELSE content
              answer == IF Trim(raw) = "" THEN UNKNOWN_PHRASE ELSE Trim(raw)
              fileUrls == [i \in 1..Len(qaSources) |-> FileUrl(qaSources[i])]
          IN qaResult' = QaReturn(answer, fileUrls, snResult.value)
  /\ pc' = "qa_done"
  /\ UNCHANGED << offVars, callRows, inputVars, snVars, handlerVars, scored, snippets, items, frResult,
                  qaSources >>

\* handleQA after answerQuestion settled: sources are rebuilt from
\* qaResult.matches with extractSources; the catch block for a rejection
handleQASend ==
  /\ mode = "qa"
  /\ pc = "qa_done"
  /\ pc' = "done"
  /\ IF hstate = "waiting"
       THEN /\ hstate' = "done"
            /\ sent' = Append(sent,
                 IF qaResult.status = "error"
                   THEN ErrorMsg("", "Internal server error")
                   ELSE LET answer == qaResult.answer
                            matches == qaResult.matches
                            sources == extractSources(matches)
                        IN [type |-> "answer", question |-> query, answer |-> answer,
                            sources |-> IF isUnknownResponse(answer) THEN <<>> ELSE sources])
       ELSE UNCHANGED << hstate, sent >>
  /\ UNCHANGED << offVars, callRows, inputVars, snVars, pipeVars, dayCount >>

Next ==
  \/ handleSearchEntry
  \/ handleQAEntry
  \/ AnswerReformulate
  \/ AnswerExtract
  \/ AnswerLLM
  \/ handleQASend
  \/ HandlerTimeout
  \/ FetchDecide
  \/ FetchScore
  \/ FetchInterpret
  \/ handleSearchSend
  \/ SearchNearestEntry
  \/ ExactQuery
  \/ IdQuery
  \/ TypeQuery
  \/ Embed
  \/ VectorQuery
  \/ ReadFiles

Spec == Init /\ [][Next]_vars

\* no request is running: the state of the request variables while another
\* component is exercised
RequestIdle ==
  /\ mode = "off"
  /\ query = ""
  /\ store = {}
  /\ dbDim = 0
  /\ ragToday = NoDate
  /\ useLLMSnippet = FALSE
  /\ dayCount = 0
  /\ pc = "off"
  /\ hstate = "none"
  /\ snQuery = ""
  /\ snK = 1
  /\ snOpts = [searchByTitle |-> FALSE, allowDownsample |-> TRUE]
  /\ variants = <<>>
  /\ vi = 1
  /\ titleFilterParam = Null
  /\ embeddingArr = NoEmbeddingYet
  /\ embeddingToUse = <<>>
  /\ rows = <<>>
  /\ stage = "none"
  /\ snResult = NoResult
  /\ calls = <<>>
  /\ readFailed = {}
  /\ callRows = <<>>
  /\ scored = <<>>
  /\ snippets = <<>>
  /\ items = <<>>
  /\ frResult = NoFr
  /\ qaSources = <<>>
  /\ qaResult = NoQa
  /\ sent = <<>>

requestVars == << inputVars, snVars, pipeVars, handlerVars, pc >>

\* what the steps of one component leave alone
restOfResearcher == << requestVars, libVars, rdVars, rlVars, anVars, clVars >>
restOfLibrary == << requestVars, rsVars, rdVars, rlVars, anVars, clVars >>
restOfReads == << requestVars, libVars, rsVars, rlVars, anVars, clVars >>
restOfLimiter == << requestVars, libVars, rsVars, rdVars, anVars, clVars >>
restOfAnalysis == << requestVars, libVars, rsVars, rdVars, rlVars, clVars >>
restOfClient == << requestVars, libVars, rsVars, rdVars, rlVars, anVars >>

(***************************************************************************)
(* researcherExecutePlan(plan) and its helpers                             *)
(***************************************************************************)
\* process.env.RAG_CONSTITUTION
CONSTITUTION == "1987"

\* (hit.text || '').split('\n').length
RECURSIVE LineCount(_)
LineCount(text) ==
  IF text = "" THEN 1
  ELSE (IF Ch(text, 1) = "\n" THEN 1 ELSE 0) + LineCount(Tail(text))

\* the predicate of hits.filter in filterBarExamNotes
KeepsHit(hit) ==
  LET filename == Lower(Coalesce(hit.filename))
      relativePath == Lower(Coalesce(hit.relative_path))
      isBarExam == Includes(filename, "bar") \/ Includes(relativePath, "bar")
      hasConstitutionContent == Includes(filename, "const") \/ Includes(relativePath, "const")
      isCorrectConstitution ==
        \/ Includes(filename, "cons" \o CONSTITUTION)
        \/ Includes(relativePath, "cons" \o CONSTITUTION)
  IN /\ LineCount(Coalesce(hit.text)) > 2
     /\ ~isBarExam
     /\ hasConstitutionContent => isCorrectConstitution

\* filterBarExamNotes(hits)
filterBarExamNotes(hits) == SelectSeq(hits, KeepsHit)

\* the patterns of extractCitations: <prefix>\s*(?:No\.?)?\s*(\d+) with flags
\* gi; the G.R. pattern requires the "No"
citationPatterns == <<
  [alts |-> << "R.A.", "RA", "Republic Act" >>, noRequired |-> FALSE],
  [alts |-> << "P.D.", "PD", "Presidential Decree" >>, noRequired |-> FALSE],
  [alts |-> << "E.O.", "EO", "Executive Order" >>, noRequired |-> FALSE],
  [alts |-> << "B.P.", "BP", "Batas Pambansa" >>, noRequired |-> FALSE],
  [alts |-> << "G.R." >>, noRequired |-> TRUE],
  [alts |-> << "A.O.", "AO", "Administrative Order" >>, noRequired |-> FALSE],
  [alts |-> << "D.O.", "DO", "Department Order" >>, noRequired |-> FALSE] >>

\* last index of the digit run that starts at j (j - 1 when there is none)
RECURSIVE DigitsEnd(_, _)
DigitsEnd(s, j) ==
  IF j > Len(s) \/ ~IsDigit(Ch(s, j)) THEN j - 1 ELSE DigitsEnd(s, j + 1)

\* \s*(?:No\.?)?\s*(\d+) from index j: the index of the last digit, 0 when the
\* tail does not match
CitationTail(s, j, noRequired) ==
  LET a == SkipSpaces(s, j)
      hasNo == StartsAtI(s, "No", a)
      b == IF hasNo THEN (IF StartsAt(s, ".", a + 2) THEN a + 3 ELSE a + 2) ELSE a
      d == SkipSpaces(s, b)
      e == DigitsEnd(s, d)
  IN IF (noRequired /\ ~hasNo) \/ e < d THEN 0 ELSE e

\* the end of the match of pattern pat at index i, 0 when it does not match:
\* the first alternative whose tail matches
CitationEnd(s, i, pat) ==
  LET ends == [a \in 1..Len(pat.alts) |->
                 IF StartsAtI(s, pat.alts[a], i)
                   THEN CitationTail(s, i + Len(pat.alts[a]), pat.noRequired)
                   ELSE 0]
      hit == {a \in 1..Len(pat.alts) : ends[a] > 0}
  IN IF hit = {} THEN 0 ELSE ends[CHOOSE a \in hit : \A o \in hit : a <= o]

\* text.matchAll(pattern): match[0].trim() of each match, scanning from i
RECURSIVE CitationsFrom(_, _, _)
CitationsFrom(s, i, pat) ==
  IF i > Len(s) THEN <<>>
  ELSE LET e == CitationEnd(s, i, pat)
       IN IF e > 0 THEN << Trim(SubSeq(s, i, e)) >> \o CitationsFrom(s, e + 1, pat)
          ELSE CitationsFrom(s, i + 1, pat)

RECURSIVE CitationsOfPatterns(_, _, _)
CitationsOfPatterns(acc, s, p) ==
  IF p > Len(citationPatterns) THEN acc
  ELSE CitationsOfPatterns(SetAddAll(acc, CitationsFrom(s, 1, citationPatterns[p])), s, p + 1)

\* extractCitations(text): Array.from(citations)
extractCitations(text) == IF text = "" THEN <<>> ELSE CitationsOfPatterns(<<>>, text, 1)

\* the objects searchNearest can hand to the researcher (uuid, filename,
\* relative_path, date, text): r1 and r2 cite each other, r3 is bar-exam
\* material, r4 has fewer than three lines, r5 has no complete sentence
ResearchDocs == <<
  [uuid |-> "r1", filename |-> "ra_386", relative_path |-> "ra", date |-> 1950,
   text |-> "Civil Code.\nNegligence in maritime contracts is punished under RA 1061.\nEnd."],
  [uuid |-> "r2", filename |-> "ra_1061", relative_path |-> "ra", date |-> 1954,
   text |-> "Maritime law\nMaritime contracts are void for negligence.\nSee R.A. No. 386."],
  [uuid |-> "r3", filename |-> "bar_2019", relative_path |-> "notes", date |-> 2019,
   text |-> "Bar questions.\nNegligence in maritime contracts.\nAnswers."],
  [uuid |-> "r4", filename |-> "memo", relative_path |-> Null, date |-> NoDate,
   text |-> "Negligence in maritime contracts.\nShort."],
  [uuid |-> "r5", filename |-> "cons1987_art3", relative_path |-> "constitution",
   date |-> 1987,
   text |-> "Bill of rights\nmaritime contracts and negligence\nno sentence ends here"] >>

\* largest number of rows one searchNearest call returns to the researcher
MaxHits == 2

\* what searchNearest(q, k) can resolve to: up to k objects of the corpus, in
\* any order; one document may come back more than once (one embeddings row
\* per chunk)
SearchNearestHits(k) ==
  UNION {[1..n -> {ResearchDocs[i] : i \in 1..Len(ResearchDocs)}] : n \in 0..Min(k, MaxHits)}

\* plan.requestedPerspectives || ['prosecutor', 'defense', 'judge']
requestedPerspectives(plan) ==
  IF plan.requestedPerspectives = <<>> THEN << "prosecutor", "defense", "judge" >>
  ELSE plan.requestedPerspectives

\* plan.searches.filter(...) by perspective
filteredSearches(plan) ==
  SelectSeq(plan.searches,
    LAMBDA srch :
      LET perspective == IF srch.perspective = Null THEN "general" ELSE srch.perspective
      IN (\E p \in 1..Len(requestedPerspectives(plan)) :
            requestedPerspectives(plan)[p] = perspective)
         \/ perspective = "general")

\* Number.isInteger(s.k) ? s.k : 3
SearchK(srch) == IF srch.kGiven THEN srch.k ELSE 3

\* the plans of the model; requestedPerspectives = <<>> stands for an absent
\* list, query = Null for a search without query
Plans ==
  LET direct == [query |-> "negligence in maritime contracts", kGiven |-> TRUE, k |-> 2,
                 perspective |-> "prosecutor"]
      second == [query |-> "maritime contracts", kGiven |-> FALSE, k |-> 0,
                 perspective |-> Null]
      other == [query |-> "bill of rights", kGiven |-> TRUE, k |-> 1,
                perspective |-> "historian"]
      empty == [query |-> Null, kGiven |-> TRUE, k |-> 1, perspective |-> "judge"]
  IN { [searches |-> << direct >>, requestedPerspectives |-> <<>>],
       [searches |-> << direct, second >>, requestedPerspectives |-> <<>>],
       [searches |-> << other, empty, direct >>, requestedPerspectives |-> <<>>],
       [searches |-> << other, second >>, requestedPerspectives |-> << "historian" >>],
       [searches |-> <<>>, requestedPerspectives |-> << "judge" >>] }

\* seen.has(uuid)
SeenHas(seen, uuid) == \E i \in 1..Len(seen) : seen[i].uuid = uuid

\* a Map that overwrites nothing and keeps every value it is given
SeenKeepAll(seen, hit) == Append(seen, hit)

\* if (!seen.has(h.uuid)) seen.set(h.uuid, hit)
SeenSet(seen, hit) == IF SeenHas(seen, hit.uuid) THEN seen ELSE Append(seen, hit)

\* reducedHit: {...h, snippet, text: snippet, full_text_truncated}; a field the
\* object lacks is Null (FALSE for the flag)
ReducedHit(h, snippet) ==
  [uuid |-> h.uuid, filename |-> h.filename, relative_path |-> h.relative_path,
   date |-> h.date, text |-> snippet, snippet |-> snippet,
   full_text_truncated |-> Len(Coalesce(h.text)) > Len(snippet),
   foundViaCitation |-> Null]

\* {...hit, foundViaCitation: citation}
CitationHit(h, citation) ==
  [uuid |-> h.uuid, filename |-> h.filename, relative_path |-> h.relative_path,
   date |-> h.date, text |-> h.text, snippet |-> Null,
   full_text_truncated |-> FALSE, foundViaCitation |-> citation]

\* the loop over the hits of one direct search; st = [seen, citations, surfaced]
RECURSIVE AbsorbHits(_, _, _)
AbsorbHits(st, hits, q) ==
  IF hits = <<>> THEN st
  ELSE LET h == Head(hits)
           originalText == Coalesce(h.text)
           cited == SetAddAll(st.citations, extractCitations(originalText))
           snippet == formatSnippet(extractRelevantSnippet(originalText, q, FALSE, ""))
       IN IF snippet = UNKNOWN_PHRASE
            THEN AbsorbHits([st EXCEPT !.citations = cited], Tail(hits), q)
            ELSE AbsorbHits([seen |-> SeenSet(st.seen, ReducedHit(h, snippet)),
                             citations |-> cited,
                             surfaced |-> Append(st.surfaced, ReducedHit(h, snippet))],
                            Tail(hits), q)

\* the loop over citationHits after searchCitations returned
RECURSIVE MergeCitationHits(_, _)
MergeCitationHits(seen, hits) ==
  IF hits = <<>> THEN seen ELSE MergeCitationHits(SeenSet(seen, Head(hits)), Tail(hits))

\* one iteration of the loop over filteredSearches: the searchNearest call
\* (a rejection rejects researcherExecutePlan), the filter and the hits loop
RsSearch ==
  /\ rsPc = "loop"
  /\ rsIdx <= Len(filteredSearches(rsPlan))
  /\ \E srch \in {filteredSearches(rsPlan)[rsIdx]} :
       IF srch.query = Null \/ srch.query = ""
         THEN /\ rsIdx' = rsIdx + 1
              /\ UNCHANGED << rsSeen, rsCitations, rsSurfaced, rsPc, rsResult >>
         ELSE \/ /\ rsResult' = Thrown("store")
                 /\ rsPc' = "done"
                 /\ UNCHANGED << rsIdx, rsSeen, rsCitations, rsSurfaced >>
              \/ \E found \in SearchNearestHits(SearchK(srch)) :
                 \E st \in {AbsorbHits([seen |-> rsSeen, citations |-> rsCitations,
                                        surfaced |-> rsSurfaced],
                                       filterBarExamNotes(found), srch.query)} :
                    /\ rsSeen' = st.seen
                    /\ rsCitations' = st.citations
                    /\ rsSurfaced' = st.surfaced
                    /\ rsIdx' = rsIdx + 1
                    /\ UNCHANGED << rsPc, rsResult >>
  /\ UNCHANGED << restOfResearcher, rsPlan, rsCi, rsCitationHits >>

\* after the loop: the citation follow-up when a citation was collected, the
\* return of Array.from(seen.values()) otherwise
RsAfterLoop ==
  /\ rsPc = "loop"
  /\ rsIdx > Len(filteredSearches(rsPlan))
  /\ IF Len(rsCitations) > 0
       THEN rsPc' = "cite" /\ UNCHANGED rsResult
       ELSE rsPc' = "done" /\ rsResult' = Returned(rsSeen)
  /\ UNCHANGED << restOfResearcher, rsPlan, rsIdx, rsSeen, rsCitations, rsCi,
                  rsCitationHits, rsSurfaced >>

\* citations.slice(0, 5)
CitationsSearched == Min(5, Len(rsCitations))

\* one iteration of searchCitations: searchNearest(citation, 2, {searchByTitle:
\* true}), whose rejection is caught and skipped
RsCiteSearch ==
  /\ rsPc = "cite"
  /\ rsCi <= CitationsSearched
  /\ \/ UNCHANGED rsCitationHits
     \/ \E found \in SearchNearestHits(2) :
        \E kept \in {filterBarExamNotes(found)} :
          rsCitationHits' = rsCitationHits \o
            [i \in 1..Len(kept) |-> CitationHit(kept[i], rsCitations[rsCi])]
  /\ rsCi' = rsCi + 1
  /\ UNCHANGED << restOfResearcher, rsPlan, rsIdx, rsSeen, rsCitations, rsSurfaced,
                  rsPc, rsResult >>

\* the loop over citationHits and the return of Array.from(seen.values())
RsMerge ==
  /\ rsPc = "cite"
  /\ rsCi > CitationsSearched
  /\ rsSeen' = MergeCitationHits(rsSeen, rsCitationHits)
  /\ rsSurfaced' = rsSurfaced \o rsCitationHits
  /\ rsResult' = Returned(rsSeen')
  /\ rsPc' = "done"
  /\ UNCHANGED << restOfResearcher, rsPlan, rsIdx, rsCitations, rsCi, rsCitationHits >>

ResearcherInit ==
  /\ RequestIdle
  /\ ClientIdle
  /\ AnalysisIdle
  /\ LimiterIdle
  /\ LibIdle
  /\ ReadsIdle
  /\ rsPlan \in Plans
  /\ rsIdx = 1
  /\ rsSeen = <<>>
  /\ rsCitations = <<>>
  /\ rsCi = 1
  /\ rsCitationHits = <<>>
  /\ rsSurfaced = <<>>
  /\ rsPc = "loop"
  /\ rsResult = NoResult

ResearcherNext == RsSearch \/ RsAfterLoop \/ RsCiteSearch \/ RsMerge

ResearcherSpec == ResearcherInit /\ [][ResearcherNext]_vars

(***************************************************************************)
(* Library functions applied on their own                                  *)
(***************************************************************************)
RECURSIVE Repeat(_, _)
Repeat(part, n) == IF n = 0 THEN "" ELSE part \o Repeat(part, n - 1)

\* a sentence of more than 300 characters
LongSentence == "Negligence in " \o Repeat("maritime contracts and ", 14) \o "carriage is punished."

\* document texts: two short sentences, one long sentence, no sentence at all,
\* an empty text
SnippetTexts ==
  { "Republic Act 1061 governs maritime contracts. Negligence voids them.",
    LongSentence,
    "Intro! " \o LongSentence \o " Negligence voids maritime contracts.",
    "republic act 1061 maritime contracts negligence",
    "" }

SnippetQueries == { "negligence in maritime contracts", "RA 1061" }

NoCompletion == [kind |-> "none", content |-> Null]

\* what the chat completion of the LLM-assisted extractor can do
LlmCompletions ==
  { [kind |-> "throw", content |-> Null],
    [kind |-> "answer", content |-> Null],
    [kind |-> "answer", content |-> "   "],
    [kind |-> "answer", content |-> "Negligence voids them."],
    [kind |-> "answer", content |-> "\"Negligence   voids them.\""],
    [kind |-> "answer", content |-> "''"],
    [kind |-> "answer", content |-> "..."],
    [kind |-> "answer", content |-> "No relevant passage found."],
    [kind |-> "answer", content |-> "The carrier is liable for all damage."],
    [kind |-> "answer", content |-> LongSentence] }

\* the calls of extractRelevantSnippet(text, query, {useLLM}), each with what
\* its chat completion does
SnippetCalls ==
  {[fn |-> "extractRelevantSnippet", text |-> c[1], query |-> c[2], useLLM |-> c[3],
    completion |-> c[4]] :
     c \in {d \in SnippetTexts \X SnippetQueries \X BOOLEAN \X (LlmCompletions \cup {NoCompletion}) :
              d[3] <=> (d[4] # NoCompletion)}}

\* extractRelevantSnippet(text, query, useLLM) applied to a text
CallExtractRelevantSnippet ==
  /\ libPc = "ready"
  /\ libCall.fn = "extractRelevantSnippet"
  /\ libRet' = extractRelevantSnippet(libCall.text, libCall.query, libCall.useLLM,
                 extractRelevantSnippetWithLLM(libCall.text, libCall.completion,
                                               SnippetMaxChars))
  /\ libPc' = "returned"
  /\ UNCHANGED << restOfLibrary, libCall, libHeap >>

\* matches handed to scoreMatches: distances 0..4 and texts that hold all,
\* some or none of the query words (or no text at all)
ScoreMatchObjects ==
  { [uuid |-> "m1", filename |-> "ra_386", relative_path |-> "laws/ra_386", date |-> NoDate,
     text |-> "Maritime negligence law of carriage.", dist |-> 4],
    [uuid |-> "m2", filename |-> "ra_1061", relative_path |-> "laws/ra_1061", date |-> NoDate,
     text |-> "Negligence of the MARITIME carrier.", dist |-> 2],
    [uuid |-> "m3", filename |-> "memo", relative_path |-> "memo", date |-> NoDate,
     text |-> "The law on sales.", dist |-> 2],
    [uuid |-> "m4", filename |-> "notes", relative_path |-> "notes", date |-> NoDate,
     text |-> Null, dist |-> 1],
    [uuid |-> "m5", filename |-> "exact", relative_path |-> "exact", date |-> NoDate,
     text |-> "Maritime negligence.", dist |-> 0] }

ScoreQueries == {"maritime negligence law", "of"}

MaxMatches == 3

ScoreInputs == UNION {[1..n -> ScoreMatchObjects] : n \in 0..MaxMatches}

ScoreCalls ==
  {[fn |-> "scoreMatches", matches |-> c[1], query |-> c[2], maxResults |-> c[3]] :
     c \in ScoreInputs \X ScoreQueries \X (0..MaxMatches)}

\* one call of scoreMatches(matches, query, maxResults)
CallScoreMatches ==
  /\ libPc = "ready"
  /\ libCall.fn = "scoreMatches"
  /\ libRet' = scoreMatches(libCall.matches, libCall.query, libCall.maxResults)
  /\ libPc' = "returned"
  /\ UNCHANGED << restOfLibrary, libCall, libHeap >>

\* embeddings handed to downsampleEmbedding: arrays of up to MaxDim numbers;
\* targetDim 0 stands for every falsy target (0, undefined, null)
MaxDim == 4

EmbeddingValues == {1, 2}

Embeddings == UNION {[1..n -> EmbeddingValues] : n \in 0..MaxDim}

DownsampleCalls ==
  {[fn |-> "downsampleEmbedding", embedding |-> c[1], targetDim |-> c[2]] :
     c \in Embeddings \X (0..(MaxDim + 1))}

\* the array objects of a call: the argument and the array the call creates
ArgRef == "embedding"
OutRef == "out"

\* downsampleEmbedding that returns the array it was given
downsampleEmbeddingInPlace(heap, ref, targetDim) == [heap |-> heap, ref |-> ref]

\* downsampleEmbedding on array objects: embedding.slice() and
\* new Array(targetDim) both create the array that is returned
downsampleEmbeddingRef(heap, ref, targetDim) ==
  [heap |-> (OutRef :> downsampleEmbedding(heap[ref], targetDim)) @@ heap,
   ref |-> OutRef]

\* one call of downsampleEmbedding(embedding, targetDim)
CallDownsampleEmbedding ==
  /\ libPc = "ready"
  /\ libCall.fn = "downsampleEmbedding"
  /\ \E r \in {downsampleEmbeddingRef(libHeap, ArgRef, libCall.targetDim)} :
       /\ libHeap' = r.heap
       /\ libRet' = r.ref
  /\ libPc' = "returned"
  /\ UNCHANGED << restOfLibrary, libCall >>

\* the caller writes a component of the array it was given back
WriteResult ==
  /\ libPc = "returned"
  /\ libCall.fn = "downsampleEmbedding"
  /\ \E i \in 1..Len(libHeap[libRet]) :
       libHeap' = [libHeap EXCEPT ![libRet][i] = 0]
  /\ libPc' = "written"
  /\ UNCHANGED << restOfLibrary, libCall, libRet >>

LibraryInit ==
  /\ RequestIdle
  /\ ClientIdle
  /\ AnalysisIdle
  /\ LimiterIdle
  /\ ResearcherIdle
  /\ ReadsIdle
  /\ libPc = "ready"
  /\ libRet = Null
  /\ \/ libCall \in SnippetCalls /\ libHeap = << >>
     \/ libCall \in ScoreCalls /\ libHeap = << >>
     \/ libCall \in DownsampleCalls /\ libHeap = (ArgRef :> libCall.embedding)

LibraryNext ==
  \/ CallExtractRelevantSnippet
  \/ CallScoreMatches
  \/ CallDownsampleEmbedding
  \/ WriteResult

LibrarySpec == LibraryInit /\ [][LibraryNext]_vars

(***************************************************************************)
(* The body loads of searchNearest, task by task                           *)
(* Promise.all(rows.map((r) => limit(async () => {...}))) with             *)
(* limit = pLimit(6): a task waits in the queue of limit until fewer than  *)
(* 6 tasks run, tasks start in queue order, and Promise.all resolves with  *)
(* the task results in the order of rows once every task has resolved.     *)
(***************************************************************************)
\* the argument of pLimit(...)
ReadConcurrency == 6

\* most candidate rows of one call
MaxRows == 8

\* a limiter that starts every queued task at once
StartsAlways(activeCount) == TRUE

\* pLimit: a queued task starts while activeCount < concurrency
StartsNext(activeCount) == activeCount < ReadConcurrency

\* candidate rows: row i of n, with or without a filename
CandidateRows ==
  UNION {{[i \in 1..n |-> [uuid |-> i, filename |-> IF i = missing THEN Null ELSE "file"]] :
            missing \in 0..Min(n, 2)} : n \in 0..MaxRows}

Unsettled == [settled |-> FALSE, uuid |-> 0, text |-> Null]

ReadInit ==
  /\ RequestIdle
  /\ ClientIdle
  /\ AnalysisIdle
  /\ LimiterIdle
  /\ ResearcherIdle
  /\ LibIdle
  /\ rdRows \in CandidateRows
  /\ rdQueue = [i \in 1..Len(rdRows) |-> i]
  /\ rdActive = {}
  /\ rdResults = [i \in 1..Len(rdRows) |-> Unsettled]
  /\ rdPc = "loading"
  /\ rdOut = <<>>

\* the fs.readFile calls that have not settled
ReadsInFlight == {i \in rdActive : rdRows[i].filename # Null}

\* pLimit starts the task at the head of its queue
StartTask ==
  /\ rdPc = "loading"
  /\ rdQueue # <<>>
  /\ StartsNext(Cardinality(rdActive))
  /\ rdActive' = rdActive \cup {Head(rdQueue)}
  /\ rdQueue' = Tail(rdQueue)
  /\ UNCHANGED << restOfReads, rdRows, rdResults, rdPc, rdOut >>

\* a running task ends: its read resolved or threw (text = null), or the row
\* had no filename and nothing was read
SettleTask ==
  /\ rdPc = "loading"
  /\ \E i \in rdActive :
       /\ \E failed \in (IF rdRows[i].filename = Null THEN {FALSE} ELSE BOOLEAN) :
            rdResults' = [rdResults EXCEPT ![i] =
                            [settled |-> TRUE, uuid |-> rdRows[i].uuid,
                             text |-> IF rdRows[i].filename = Null \/ failed
                                        THEN Null ELSE "body"]]
       /\ rdActive' = rdActive \ {i}
  /\ UNCHANGED << restOfReads, rdRows, rdQueue, rdPc, rdOut >>

\* Promise.all resolves: every task has resolved
ReadsReturn ==
  /\ rdPc = "loading"
  /\ \A i \in 1..Len(rdRows) : rdResults[i].settled
  /\ rdOut' = [i \in 1..Len(rdRows) |-> [uuid |-> rdResults[i].uuid, text |-> rdResults[i].text]]
  /\ rdPc' = "done"
  /\ UNCHANGED << restOfReads, rdRows, rdQueue, rdActive, rdResults >>

ReadNext == StartTask \/ SettleTask \/ ReadsReturn

ReadSpec == ReadInit /\ [][ReadNext]_vars

(***************************************************************************)
(* tryConsume, query by query, for concurrent callers                      *)
(* Every caller uses the one pgClient of db.mjs: one session, so BEGIN,    *)
(* SELECT ... FOR UPDATE, INSERT / UPDATE and COMMIT of different calls    *)
(* run in the same transaction state, in the order they are issued.        *)
(***************************************************************************)
\* tryConsume calls of one UTC day
MaxCallers == 3
Callers == 1..MaxCallers

\* the count the session sees
Visible(db) == IF db.txn = "open" THEN db.work ELSE db.committed

\* a write of the session: inside the open transaction, or committed at once
Written(db, n) ==
  IF db.txn = "open" THEN [db EXCEPT !.work = n] ELSE [db EXCEPT !.committed = n]

\* a statement is refused: no connection, or the transaction is aborted
Refused(db) == ~db.up \/ db.txn = "aborted"

\* an error inside a transaction aborts it
Aborted(db) == IF db.txn = "open" THEN [db EXCEPT !.txn = "aborted"] ELSE db

\* BEGIN (a warning and no effect when a transaction is open)
DbBegin(db) == IF db.txn = "none" THEN [db EXCEPT !.txn = "open", !.work = db.committed] ELSE db

\* COMMIT (ends an aborted transaction as ROLLBACK does; a warning without one)
DbCommit(db) ==
  IF db.txn = "open" THEN [db EXCEPT !.txn = "none", !.committed = db.work]
  ELSE [db EXCEPT !.txn = "none"]

\* ROLLBACK
DbRollback(db) == [db EXCEPT !.txn = "none", !.work = db.committed]

LimiterInit ==
  /\ RequestIdle
  /\ ClientIdle
  /\ AnalysisIdle
  /\ ResearcherIdle
  /\ LibIdle
  /\ ReadsIdle
  /\ rlDb \in [up : {TRUE}, txn : {"none"}, committed : 0..HardLimit, work : {0}]
  /\ rlMem = 0
  /\ rlPc = [c \in Callers |-> "idle"]
  /\ rlCur = [c \in Callers |-> 0]
  /\ rlRet = [c \in Callers |-> "none"]
  /\ rlHist = [outage |-> FALSE, overlap |-> FALSE]

Running(c) == rlPc[c] \notin {"idle", "done"}

\* a handler calls tryConsume()
TcCall(c) ==
  /\ rlPc[c] = "idle"
  /\ rlPc' = [rlPc EXCEPT ![c] = "schema"]
  /\ rlHist' = [rlHist EXCEPT !.overlap = @ \/ \E o \in Callers : Running(o)]
  /\ UNCHANGED << restOfLimiter, rlDb, rlMem, rlCur, rlRet >>

\* await _ensureSchema(): CREATE TABLE IF NOT EXISTS
TcSchema(c) ==
  /\ rlPc[c] = "schema"
  /\ rlPc' = [rlPc EXCEPT ![c] = IF Refused(rlDb) THEN "catch" ELSE "begin"]
  /\ UNCHANGED << restOfLimiter, rlDb, rlMem, rlCur, rlRet, rlHist >>

\* await pgClient.query('BEGIN')
TcBegin(c) ==
  /\ rlPc[c] = "begin"
  /\ IF Refused(rlDb)
       THEN rlPc' = [rlPc EXCEPT ![c] = "catch"] /\ UNCHANGED rlDb
       ELSE rlPc' = [rlPc EXCEPT ![c] = "select"] /\ rlDb' = DbBegin(rlDb)
  /\ UNCHANGED << restOfLimiter, rlMem, rlCur, rlRet, rlHist >>

\* SELECT count ... FOR UPDATE and the branch on cur
TcSelect(c) ==
  /\ rlPc[c] = "select"
  /\ IF Refused(rlDb)
       THEN rlPc' = [rlPc EXCEPT ![c] = "catch"] /\ UNCHANGED rlCur
       ELSE /\ rlCur' = [rlCur EXCEPT ![c] = Visible(rlDb)]
            /\ rlPc' = [rlPc EXCEPT ![c] =
                          IF Visible(rlDb) >= getLimit THEN "rollback"
                          ELSE IF Visible(rlDb) = 0 THEN "insert" ELSE "update"]
  /\ UNCHANGED << restOfLimiter, rlDb, rlMem, rlRet, rlHist >>

\* cur >= DEFAULT_LIMIT: await pgClient.query('ROLLBACK'); return false
TcRollback(c) ==
  /\ rlPc[c] = "rollback"
  /\ IF ~rlDb.up
       THEN rlPc' = [rlPc EXCEPT ![c] = "catch"] /\ UNCHANGED << rlDb, rlRet >>
       ELSE /\ rlDb' = DbRollback(rlDb)
            /\ rlPc' = [rlPc EXCEPT ![c] = "done"]
            /\ rlRet' = [rlRet EXCEPT ![c] = "false"]
  /\ UNCHANGED << restOfLimiter, rlMem, rlCur, rlHist >>

\* INSERT INTO daily_api_counters(day, count) VALUES($1, 1): a duplicate key
\* when the row is there
TcInsert(c) ==
  /\ rlPc[c] = "insert"
  /\ IF Refused(rlDb)
       THEN rlPc' = [rlPc EXCEPT ![c] = "catch"] /\ UNCHANGED rlDb
       ELSE IF Visible(rlDb) > 0
         THEN rlPc' = [rlPc EXCEPT ![c] = "catch"] /\ rlDb' = Aborted(rlDb)
         ELSE rlPc' = [rlPc EXCEPT ![c] = "commit"] /\ rlDb' = Written(rlDb, 1)
  /\ UNCHANGED << restOfLimiter, rlMem, rlCur, rlRet, rlHist >>

\* UPDATE daily_api_counters SET count = count + 1
TcUpdate(c) ==
  /\ rlPc[c] = "update"
  /\ IF Refused(rlDb)
       THEN rlPc' = [rlPc EXCEPT ![c] = "catch"] /\ UNCHANGED rlDb
       ELSE /\ rlPc' = [rlPc EXCEPT ![c] = "commit"]
            /\ rlDb' = IF Visible(rlDb) > 0 THEN Written(rlDb, Visible(rlDb) + 1) ELSE rlDb
  /\ UNCHANGED << restOfLimiter, rlMem, rlCur, rlRet, rlHist >>

\* await pgClient.query('COMMIT'); return true
TcCommit(c) ==
  /\ rlPc[c] = "commit"
  /\ IF ~rlDb.up
       THEN rlPc' = [rlPc EXCEPT ![c] = "catch"] /\ UNCHANGED << rlDb, rlRet >>
       ELSE /\ rlDb' = DbCommit(rlDb)
            /\ rlPc' = [rlPc EXCEPT ![c] = "done"]
            /\ rlRet' = [rlRet EXCEPT ![c] = "true"]
  /\ UNCHANGED << restOfLimiter, rlMem, rlCur, rlHist >>

\* the catch block: ROLLBACK (its own failure ignored), then the in-memory
\* counter
TcCatch(c) ==
  /\ rlPc[c] = "catch"
  /\ rlDb' = IF rlDb.up THEN DbRollback(rlDb) ELSE rlDb
  /\ IF rlMem >= getLimit
       THEN rlRet' = [rlRet EXCEPT ![c] = "false"] /\ UNCHANGED rlMem
       ELSE rlRet' = [rlRet EXCEPT ![c] = "true"] /\ rlMem' = rlMem + 1
  /\ rlPc' = [rlPc EXCEPT ![c] = "done"]
  /\ UNCHANGED << restOfLimiter, rlCur, rlHist >>

\* the database becomes unreachable: the session and its transaction are gone
DbFails ==
  /\ rlDb.up
  /\ \E c \in Callers : rlPc[c] # "done"
  /\ rlDb' = [rlDb EXCEPT !.up = FALSE, !.txn = "none", !.work = rlDb.committed]
  /\ rlHist' = [rlHist EXCEPT !.outage = TRUE]
  /\ UNCHANGED << restOfLimiter, rlMem, rlPc, rlCur, rlRet >>

\* the database is reachable again
DbRecovers ==
  /\ ~rlDb.up
  /\ rlDb' = [rlDb EXCEPT !.up = TRUE]
  /\ UNCHANGED << restOfLimiter, rlMem, rlPc, rlCur, rlRet, rlHist >>

LimiterNext ==
  \/ \E c \in Callers : TcCall(c)
  \/ \E c \in Callers : TcSchema(c)
  \/ \E c \in Callers : TcBegin(c)
  \/ \E c \in Callers : TcSelect(c)
  \/ \E c \in Callers : TcRollback(c)
  \/ \E c \in Callers : TcInsert(c)
  \/ \E c \in Callers : TcUpdate(c)
  \/ \E c \in Callers : TcCommit(c)
  \/ \E c \in Callers : TcCatch(c)
  \/ DbFails
  \/ DbRecovers

LimiterSpec == LimiterInit /\ [][LimiterNext]_vars

(***************************************************************************)
(* handlePerspectiveAnalysis                                               *)
(***************************************************************************)
AnalysisInit ==
  /\ RequestIdle
  /\ ClientIdle
  /\ ResearcherIdle
  /\ LibIdle
  /\ ReadsIdle
  /\ LimiterIdle
  /\ anQuery \in Queries
  /\ anCount \in 0..HardLimit
  /\ anH = "start"
  /\ anPipe = "off"
  /\ anAnswer = ""
  /\ anSent = <<>>

\* the query check, the rate limit, sendStatus(ws, 'Planning') and the start
\* of analysisPromise
AnalysisEntry ==
  /\ anH = "start"
  /\ IF anQuery = "" \/ Trim(anQuery) = ""
       THEN /\ anSent' = Append(anSent, ErrorMsg("", "question required"))
            /\ anH' = "done"
            /\ UNCHANGED << anCount, anPipe >>
       ELSE IF getRemaining(anCount) <= 0 \/ ~tryConsume(anCount).ok
         THEN /\ anSent' = Append(anSent, ErrorMsg("RATE_LIMIT", "Daily request limit reached"))
              /\ anH' = "done"
              /\ UNCHANGED << anCount, anPipe >>
         ELSE /\ anCount' = tryConsume(anCount).count
              /\ anSent' = Append(anSent, StatusMsg("Planning"))
              /\ anH' = "waiting"
              /\ anPipe' = "plan"
  /\ UNCHANGED << restOfAnalysis, anQuery, anAnswer >>

\* await plannerCreatePlan(...): it throws, returns no plan, or returns a plan
\* and analysisPromise goes on with sendStatus(ws, 'Researching')
AnalysisPlanned ==
  /\ anPipe = "plan"
  /\ \/ anPipe' = "rejected" /\ UNCHANGED anSent
     \/ anPipe' = "research" /\ anSent' = Append(anSent, StatusMsg("Researching"))
  /\ UNCHANGED << restOfAnalysis, anQuery, anCount, anH, anAnswer >>

\* await researcherExecutePlan(plan), then sendStatus(ws, 'Verifying')
AnalysisResearched ==
  /\ anPipe = "research"
  /\ \/ anPipe' = "rejected" /\ UNCHANGED anSent
     \/ anPipe' = "present" /\ anSent' = Append(anSent, StatusMsg("Verifying"))
  /\ UNCHANGED << restOfAnalysis, anQuery, anCount, anH, anAnswer >>

\* await presenterPresent(query, plan, snippets); return
AnalysisPresented ==
  /\ anPipe = "present"
  /\ \/ anPipe' = "rejected" /\ UNCHANGED anAnswer
     \/ anPipe' = "resolved" /\ anAnswer' \in {"Both readings are tenable.", UNKNOWN_PHRASE}
  /\ UNCHANGED << restOfAnalysis, anQuery, anCount, anH, anSent >>

\* analysisPromise settles before the timer: the answer, or the error of the
\* catch block
AnalysisSend ==
  /\ anH = "waiting"
  /\ anPipe \in {"resolved", "rejected"}
  /\ anSent' = IF anPipe = "resolved"
                 THEN anSent \o << StatusMsg("Extracting sources"),
                                   [type |-> "answer", question |-> anQuery,
                                    answer |-> anAnswer] >>
                 ELSE Append(anSent, ErrorMsg("", "Internal server error"))
  /\ anH' = "done"
  /\ UNCHANGED << restOfAnalysis, anQuery, anCount, anPipe, anAnswer >>

\* the timer of withTimeout wins the race: the catch block sends the error
\* and the handler returns; analysisPromise keeps running
AnalysisTimeout ==
  /\ anH = "waiting"
  /\ anPipe \notin {"resolved", "rejected"}
  /\ anSent' = Append(anSent, ErrorMsg("", "Internal server error"))
  /\ anH' = "done"
  /\ UNCHANGED << restOfAnalysis, anQuery, anCount, anPipe, anAnswer >>

AnalysisNext ==
  \/ AnalysisEntry
  \/ AnalysisPlanned
  \/ AnalysisResearched
  \/ AnalysisPresented
  \/ AnalysisSend
  \/ AnalysisTimeout

AnalysisSpec == AnalysisInit /\ [][AnalysisNext]_vars

(***************************************************************************)
(* The browser client: its WebSocket, its reconnect timer, its pending     *)
(* requests and sendMessage                                                *)
(***************************************************************************)
\* WebSocket objects one page creates
MaxSockets == 3
Sockets == 1..MaxSockets

\* sendMessage calls that wait for the socket at the same time
MaxWaiting == 2

Questions == {"q1", "q2"}

NoWait == [pc |-> "idle", q |-> "", p |-> 0]

HasFresh == \E i \in Sockets : clSock[i] = "none"
Fresh == CHOOSE i \in Sockets : clSock[i] = "none" /\ \A j \in 1..(i - 1) : clSock[j] # "none"

\* a sendMessage that does not look at pending
CanSendAlways(pending) == TRUE

\* if (pending.size > 0) return
CanSend(pending) == pending = <<>>

\* pending.delete(key)
PendingDelete(pending, key) == SelectSeq(pending, LAMBDA k : k # key)

\* the error branches of onmessage: the last entry of pending is removed
PendingDeleteLast(pending) ==
  IF pending = <<>> THEN pending ELSE SubSeq(pending, 1, Len(pending) - 1)

\* ws.close() of a socket that is connecting or open
Closing(sock, i) ==
  IF i # 0 /\ sock[i] \in {"connecting", "open"} THEN [sock EXCEPT ![i] = "closing"] ELSE sock

\* connectWebSocket(): close the previous socket, clear the timer, make the
\* ready promise and the new WebSocket
Connect ==
  /\ clSock' = [Closing(clSock, clWs) EXCEPT ![Fresh] = "connecting"]
  /\ clWs' = Fresh
  /\ clTimer' = FALSE
  /\ clResolveFor' = Fresh
  /\ clAfterLimit' = [clAfterLimit EXCEPT !.opened = @ \/ clRateLimited]

\* scheduleReconnect()
Scheduled(timer) == IF clRateLimited THEN timer ELSE TRUE

\* the page loads: connectWebSocket()
ClientInit ==
  /\ RequestIdle
  /\ ResearcherIdle
  /\ LibIdle
  /\ ReadsIdle
  /\ LimiterIdle
  /\ AnalysisIdle
  /\ clSock = [i \in Sockets |-> IF i = 1 THEN "connecting" ELSE "none"]
  /\ clReqs = [i \in Sockets |-> {}]
  /\ clWs = 1
  /\ clTimer = FALSE
  /\ clRateLimited = FALSE
  /\ clPending = <<>>
  /\ clResolveFor = 1
  /\ clResolved = {}
  /\ clWait = [k \in 1..MaxWaiting |-> NoWait]
  /\ clLast = NoEvent
  /\ clAfterLimit = [opened |-> FALSE, sent |-> FALSE]

\* ws.onopen
SocketOpens(i) ==
  /\ clSock[i] = "connecting"
  /\ clSock' = [clSock EXCEPT ![i] = "open"]
  /\ IF clResolveFor # 0
       THEN clResolved' = clResolved \cup {clResolveFor} /\ clResolveFor' = 0
       ELSE UNCHANGED << clResolved, clResolveFor >>
  /\ clLast' = [ev |-> "open", q |-> ""]
  /\ UNCHANGED << restOfClient, clReqs, clWs, clTimer, clRateLimited, clPending, clWait,
                  clAfterLimit >>

\* ws.onclose of a socket that closed (after close(), or the connection broke)
SocketCloses(i) ==
  /\ clSock[i] \in {"connecting", "open", "closing"}
  /\ clSock' = [clSock EXCEPT ![i] = "closed"]
  /\ clReqs' = [clReqs EXCEPT ![i] = {}]
  /\ clPending' = <<>>
  /\ clTimer' = Scheduled(clTimer)
  /\ clLast' = [ev |-> "close", q |-> ""]
  /\ UNCHANGED << restOfClient, clWs, clRateLimited, clResolveFor, clResolved, clWait,
                  clAfterLimit >>

\* the callback of the reconnect timer
TimerFires ==
  /\ clTimer
  /\ HasFresh
  /\ Connect
  /\ clLast' = [ev |-> "timer", q |-> ""]
  /\ UNCHANGED << restOfClient, clReqs, clRateLimited, clPending, clResolved, clWait >>

\* ws.send(...) of sendMessage and its catch block
\* (send throws on a socket that is still connecting)
Transmit(q, sock, ws, pending, timer) ==
  IF sock[ws] = "connecting"
    THEN /\ clPending' = PendingDelete(pending, q)
         /\ clTimer' = Scheduled(timer)
         /\ clLast' = [ev |-> "sendfail", q |-> q]
         /\ UNCHANGED << clReqs, clAfterLimit >>
    ELSE /\ clPending' = pending
         /\ clTimer' = timer
         /\ clLast' = [ev |-> "send", q |-> q]
         /\ IF sock[ws] = "open"
              THEN /\ clReqs' = [clReqs EXCEPT ![ws] = @ \cup {q}]
                   /\ clAfterLimit' = [clAfterLimit EXCEPT !.sent = @ \/ clRateLimited]
              ELSE UNCHANGED << clReqs, clAfterLimit >>

\* sendMessage up to its await: the checks, pending.set, ensureWsOpen; with an
\* open socket the request is sent at once
SendMessage(q) ==
  /\ CanSend(clPending)
  /\ ~clRateLimited
  /\ IF clWs = 0 \/ clSock[clWs] \in {"closed", "closing"}
       THEN /\ HasFresh
            /\ \E k \in 1..MaxWaiting :
                 /\ clWait[k].pc = "idle"
                 /\ \A j \in 1..(k - 1) : clWait[j].pc # "idle"
                 /\ clWait' = [clWait EXCEPT ![k] = [pc |-> "waiting", q |-> q, p |-> Fresh]]
            /\ Connect
            /\ clPending' = Append(clPending, q)
            /\ clLast' = [ev |-> "sendstart", q |-> q]
            /\ UNCHANGED << clReqs, clResolved >>
       ELSE IF clSock[clWs] = "open"
         THEN /\ Transmit(q, clSock, clWs, Append(clPending, q), clTimer)
              /\ UNCHANGED << clSock, clWs, clResolveFor, clResolved, clWait >>
         ELSE /\ \E k \in 1..MaxWaiting :
                   /\ clWait[k].pc = "idle"
                   /\ \A j \in 1..(k - 1) : clWait[j].pc # "idle"
                   /\ clWait' = [clWait EXCEPT ![k] = [pc |-> "waiting", q |-> q, p |-> clWs]]
              /\ clPending' = Append(clPending, q)
              /\ clLast' = [ev |-> "sendstart", q |-> q]
              /\ UNCHANGED << clSock, clReqs, clWs, clTimer, clResolveFor, clResolved,
                              clAfterLimit >>
  /\ UNCHANGED << restOfClient, clRateLimited >>

\* wsReadyPromise resolved: sendMessage goes on with ws.send
SendResumes(k) ==
  /\ clWait[k].pc = "waiting"
  /\ clWait[k].p \in clResolved
  /\ clWait' = [clWait EXCEPT ![k] = NoWait]
  /\ Transmit(clWait[k].q, clSock, clWs, clPending, clTimer)
  /\ UNCHANGED << restOfClient, clSock, clWs, clRateLimited, clResolveFor, clResolved >>

\* the 5 s timer of ensureWsOpen wins: the catch block of sendMessage
SendTimesOut(k) ==
  /\ clWait[k].pc = "waiting"
  /\ clWait[k].p \notin clResolved
  /\ clWait' = [clWait EXCEPT ![k] = NoWait]
  /\ clPending' = PendingDelete(clPending, clWait[k].q)
  /\ clTimer' = Scheduled(clTimer)
  /\ clLast' = [ev |-> "sendfail", q |-> clWait[k].q]
  /\ UNCHANGED << restOfClient, clSock, clReqs, clWs, clRateLimited, clResolveFor, clResolved,
                  clAfterLimit >>

\* onmessage with the answer to request q
AnswerArrives(i, q) ==
  /\ clSock[i] = "open"
  /\ q \in clReqs[i]
  /\ clReqs' = [clReqs EXCEPT ![i] = @ \ {q}]
  /\ clPending' = PendingDelete(clPending, q)
  /\ clLast' = [ev |-> "answer", q |-> q]
  /\ UNCHANGED << restOfClient, clSock, clWs, clTimer, clRateLimited, clResolveFor,
                  clResolved, clWait, clAfterLimit >>

\* onmessage with an error that is not a rate-limit error
ErrorArrives(i, q) ==
  /\ clSock[i] = "open"
  /\ q \in clReqs[i]
  /\ clReqs' = [clReqs EXCEPT ![i] = @ \ {q}]
  /\ clPending' = PendingDeleteLast(clPending)
  /\ clLast' = [ev |-> "error", q |-> q]
  /\ UNCHANGED << restOfClient, clSock, clWs, clTimer, clRateLimited, clResolveFor,
                  clResolved, clWait, clAfterLimit >>

\* onmessage with code RATE_LIMIT: the flag, the pending entry, ws.close(1008)
RateLimitArrives(i, q) ==
  /\ clSock[i] = "open"
  /\ q \in clReqs[i]
  /\ clReqs' = [clReqs EXCEPT ![i] = @ \ {q}]
  /\ clRateLimited' = TRUE
  /\ clPending' = PendingDeleteLast(clPending)
  /\ clSock' = Closing(clSock, clWs)
  /\ clLast' = [ev |-> "error", q |-> q]
  /\ UNCHANGED << restOfClient, clWs, clTimer, clResolveFor, clResolved, clWait,
                  clAfterLimit >>

ClientNext ==
  \/ \E i \in Sockets : SocketOpens(i)
  \/ \E i \in Sockets : SocketCloses(i)
  \/ TimerFires
  \/ \E q \in Questions : SendMessage(q)
  \/ \E k \in 1..MaxWaiting : SendResumes(k)
  \/ \E k \in 1..MaxWaiting : SendTimesOut(k)
  \/ \E i \in Sockets, q \in Questions : AnswerArrives(i, q)
  \/ \E i \in Sockets, q \in Questions : ErrorArrives(i, q)
  \/ \E i \in Sockets, q \in Questions : RateLimitArrives(i, q)

ClientSpec == ClientInit /\ [][ClientNext]_vars

(***************************************************************************)
(* Properties of searchNearest                                             *)
(***************************************************************************)
\* searchNearest is running or has just settled
SnFrame == pc \in {"sn_exact", "sn_id", "sn_type", "sn_embed", "sn_vector", "sn_read", "sn_done"}

Issued(call) == \E c \in 1..Len(calls) : calls[c] = call

\* documents of the store whose trimmed title equals a trimmed variant
ExactDocs ==
  {i \in store : /\ Corpus[i].title # Null
                 /\ \E j \in 1..Len(variants) : Trim(Corpus[i].title) = Trim(variants[j])}

\* C1: with searchByTitle = true and a document in the store whose trimmed
\* title equals the query or one of its variants, searchNearest issues nothing
\* but exact-title queries (no embedding call, no vector query, no later
\* cascade stage) and a returned result is non-empty and made of exact-match
\* rows only, whatever else the store holds.
C1_ExactTitleShortCircuits ==
  (SnFrame /\ snOpts.searchByTitle /\ variants # <<>> /\ ExactDocs # {}) =>
    /\ \A c \in 1..Len(calls) : calls[c] = "exact"
    /\ pc \in {"sn_exact", "sn_read", "sn_done"}
    /\ (pc = "sn_done" /\ snResult.status = "ok") =>
         /\ Len(snResult.value) >= 1
         /\ \A r \in 1..Len(snResult.value) : DocOf(snResult.value[r].uuid) \in ExactDocs

\* C1 witness: an exact-title hit was returned from a store that also holds a
\* document that is no exact match but passes the title filter of the vector
\* search
C1_Witness ==
  /\ pc = "sn_done"
  /\ snOpts.searchByTitle
  /\ snResult.status = "ok"
  /\ stage = "exact"
  /\ Len(snResult.value) >= 1
  /\ \E i \in store \ ExactDocs : TitleFilterMatch(Corpus[i], Trim(snQuery))

\* C5: for the empty query searchNearest returns the empty list and issues no
\* embedding call and no store query, for every k and every options value.
C5_EmptyQueryReturnsEmpty ==
  /\ (pc = "sn_done" /\ snQuery = "") => (snResult = Returned(<<>>) /\ calls = <<>>)
  /\ (mode = "direct" /\ snQuery = "") => (calls = <<>> /\ pc \in {"sn_start", "sn_done"})

\* C5 witness: the empty query settled with searchByTitle set, the largest k
\* and a non-empty store
C5_Witness ==
  /\ pc = "sn_done"
  /\ snQuery = ""
  /\ snOpts.searchByTitle
  /\ snK = MaxK
  /\ store # {}

\* C6 (as claimed): for a blank query searchNearest returns the empty list at
\* once, with no embedding call and no store query, with or without
\* searchByTitle.
C6_BlankQueryReturnsEmpty ==
  (pc = "sn_done" /\ snQuery # "" /\ Trim(snQuery) = "") =>
    (snResult = Returned(<<>>) /\ calls = <<>>)

\* a document of the store that some cascade stage or the title filter would
\* match for the current variants
CascadeCandidate(i) ==
  \/ \E j \in 1..Len(variants) :
       \/ ExactTitleMatch(Corpus[i], variants[j])
       \/ NormalizedTitleMatch(Corpus[i], variants[j])
       \/ TitleFilterMatch(Corpus[i], variants[j])
  \/ /\ extractTypeEvidence(Trim(snQuery)).ok
     /\ TypeEvidenceMatch(Corpus[i], extractTypeEvidence(Trim(snQuery)))

\* "RA 1061" searched by title, searchNearest returned, and document u1
\* ("Republic Act No. 1061") is the only document of the store any stage
\* could match
C7_Scenario ==
  /\ pc = "sn_done"
  /\ snQuery = "RA 1061"
  /\ snOpts.searchByTitle
  /\ snResult.status = "ok"
  /\ 1 \in store
  /\ \A i \in store \ {1} : ~CascadeCandidate(i)

C7_ReturnsTheDocument ==
  Len(snResult.value) = 1 /\ snResult.value[1].uuid = Corpus[1].uuid

\* C7 (as claimed): the document is returned, the hit comes from the
\* normalized-identifier stage, and no embedding call or vector query is made.
C7_HitInNormalizedStage ==
  C7_Scenario =>
    /\ C7_ReturnsTheDocument
    /\ stage = "id"
    /\ ~Issued("embed") /\ ~Issued("vector")

\* C7 (amended): the document is returned by the exact-title stage, on the
\* second variant ("Republic Act No. 1061") after the first ("RA 1061") found
\* no row; no normalized-identifier query, embedding call or vector query is
\* made.
C7_HitInExactStage ==
  C7_Scenario =>
    /\ C7_ReturnsTheDocument
    /\ stage = "exact"
    /\ calls = << "exact", "exact" >>

\* C7 witness: the scenario with a second, unrelated document in the store
\* and the body of the hit loaded
C7_Witness ==
  /\ C7_Scenario
  /\ Cardinality(store) > 1
  /\ C7_ReturnsTheDocument
  /\ snResult.value[1].text # Null

\* the embedding call answered with a vector of the given kind
EmbeddingAnswered == SnFrame /\ embeddingArr.kind # "none"

\* C8: with a store dimension configured, an embedding of another length and
\* allowDownsample = false, searchNearest fails with the dimension error and
\* never issues the vector query.
C8_DimensionMismatchFails ==
  ( /\ EmbeddingAnswered
    /\ embeddingArr.kind = "vector"
    /\ Len(embeddingArr.vec) > 0
    /\ dbDim # 0
    /\ Len(embeddingArr.vec) # dbDim
    /\ ~snOpts.allowDownsample ) =>
      /\ pc = "sn_done"
      /\ snResult = Thrown("dimension")
      /\ ~Issued("vector")

\* C8 witness: the dimension error raised for an embedding shorter than the
\* store dimension
C8_Witness ==
  /\ pc = "sn_done"
  /\ snResult = Thrown("dimension")
  /\ dbDim # 0
  /\ Len(embeddingArr.vec) > 0
  /\ Len(embeddingArr.vec) < dbDim
  /\ ~snOpts.allowDownsample

\* C9: when the embedding call answers null or an empty vector, searchNearest
\* returns the empty list, raises nothing and issues no vector query.
C9_NoEmbeddingReturnsEmpty ==
  ( /\ EmbeddingAnswered
    /\ \/ embeddingArr.kind = "null"
       \/ embeddingArr.kind = "vector" /\ Len(embeddingArr.vec) = 0 ) =>
      /\ pc = "sn_done"
      /\ snResult = Returned(<<>>)
      /\ ~Issued("vector")

\* C9 witness: the empty vector answered while a store dimension is
\* configured and downsampling is disabled
C9_Witness ==
  /\ pc = "sn_done"
  /\ embeddingArr.kind = "vector"
  /\ Len(embeddingArr.vec) = 0
  /\ dbDim # 0
  /\ ~snOpts.allowDownsample
  /\ snResult = Returned(<<>>)

\* C10 (as claimed): when the embedding call throws, searchNearest returns the
\* empty list instead of raising to its caller.
C10_EmbeddingFailureDegrades ==
  (pc = "sn_done" /\ embeddingArr.kind = "throw") => snResult = Returned(<<>>)

(***************************************************************************)
(* Properties of the QA and search paths                                   *)
(***************************************************************************)
\* the answer messages sent on the socket
AnswerMessages == {m \in 1..Len(sent) : sent[m].type = "answer"}

InSeq(x, seq) == \E p \in 1..Len(seq) : seq[p] = x

\* C2 (as claimed): on the QA path no sources list sent to the client holds
\* the source token of a candidate whose formatted snippet was UNKNOWN_PHRASE
\* (a candidate whose text could not be loaded included).
C2_QaSourcesExcludeSentinel ==
  mode = "qa" =>
    \A m \in AnswerMessages :
      \A i \in 1..Len(snippets) :
        snippets[i] = UNKNOWN_PHRASE => ~InSeq(extractSource(snResult.value[i]), sent[m].sources)

\* scored candidates whose formatted snippet is not the sentinel
Reliable == {i \in 1..Len(scored) : snippets[i] # UNKNOWN_PHRASE}

FromReliable(uuid) == \E i \in Reliable : scored[i].uuid = uuid

\* C3: on the search path every match fetchRelevantMatches returns, every
\* summary of its answer and every entry of the sources list the handler sends
\* belongs to a scored candidate whose formatted snippet is not
\* UNKNOWN_PHRASE, and no candidate with the sentinel snippet has its token
\* sent.
C3_SearchSourcesAreReliable ==
  mode = "search" =>
    /\ frResult.status = "ok" =>
         /\ \A r \in 1..Len(frResult.matches) : FromReliable(frResult.matches[r].uuid)
         /\ \A j \in 1..Len(frResult.answer.summaries) :
              \E i \in Reliable :
                /\ frResult.answer.summaries[j].fileUrl = extractSource(scored[i])
                /\ frResult.answer.summaries[j].snippet = snippets[i]
    /\ \A m \in AnswerMessages :
         /\ \A p \in 1..Len(sent[m].sources) :
              \E i \in Reliable : sent[m].sources[p] = extractSource(scored[i])
         /\ \A i \in (1..Len(scored)) \ Reliable :
              ~InSeq(extractSource(scored[i]), sent[m].sources)
         /\ \A j \in 1..Len(sent[m].answer.summaries) :
              \E i \in Reliable : sent[m].answer.summaries[j].fileUrl = extractSource(scored[i])

\* C3 witness: an answer with at least one source was sent while one scored
\* candidate had the sentinel snippet
C3_Witness ==
  /\ mode = "search"
  /\ pc = "done"
  /\ Reliable # {}
  /\ Reliable # 1..Len(scored)
  /\ \E m \in AnswerMessages : Len(sent[m].sources) >= 1

\* extractRelevantSnippet returned the sentinel for every scored candidate
\* (and at least one candidate was scored)
AllScoredSentinel ==
  /\ Len(scored) >= 1
  /\ \A i \in 1..Len(scored) :
       extractRelevantSnippet(TextOrEmpty(scored[i]), query, FALSE, "") = UNKNOWN_PHRASE

NoDocumentsAnswer == [head |-> "No relevant documents found.", summaries |-> <<>>]

\* C4: when extractRelevantSnippet returns the sentinel for every scored
\* candidate, fetchRelevantMatches returns normally with no match and the
\* 'No relevant documents found.' answer, and what the handler then sends is
\* that answer with an empty sources list (or the timeout error when the
\* timer fired first).
C4_AllSentinelMeansNoDocuments ==
  (mode = "search" /\ AllScoredSentinel) =>
    /\ pc \in {"fr_done", "done"}
    /\ frResult.status = "ok"
    /\ frResult.matches = <<>>
    /\ frResult.answer = NoDocumentsAnswer
    /\ \A m \in AnswerMessages :
         sent[m].sources = <<>> /\ sent[m].answer = NoDocumentsAnswer
    /\ pc = "done" =>
         \/ sent[Len(sent)].type = "answer"
         \/ sent[Len(sent)] = ErrorMsg("", "Internal server error") /\ AnswerMessages = {}

\* C4 witness: the answer was sent for a request whose scored candidates all
\* had the sentinel snippet
C4_Witness ==
  /\ mode = "search"
  /\ pc = "done"
  /\ AllScoredSentinel
  /\ sent[Len(sent)].type = "answer"
  /\ sent[Len(sent)].sources = <<>>

(***************************************************************************)
(* Failures during retrieval                                               *)
(***************************************************************************)
\* C11 (as claimed): once a store query of searchNearest has failed, the
\* handler sends no answer message, and the last message of the finished
\* request is an error message, on the search path and on the QA path.
C11_StoreFailureReachesClient ==
  (mode \in {"search", "qa"} /\ snResult = Thrown("store")) =>
    /\ AnswerMessages = {}
    /\ pc = "done" => sent[Len(sent)].type = "error"

\* C12: searchNearest never fails in its file reads: it returns one result
\* per store row, in row order, with text = null exactly for the rows whose
\* read failed or that have no filename, and the file's content otherwise.
C12_ReadFailureGivesNullText ==
  (pc = "sn_done" /\ stage # "none") =>
    /\ snResult.status = "ok"
    /\ Len(snResult.value) = Len(rows)
    /\ \A i \in 1..Len(rows) :
         /\ snResult.value[i].uuid = rows[i].uuid
         /\ snResult.value[i].filename = rows[i].filename
         /\ (snResult.value[i].text = Null) <=>
              (i \in readFailed \/ rows[i].filename = Null)
         /\ snResult.value[i].text # Null =>
              snResult.value[i].text = Corpus[DocOf(rows[i].uuid)].body

\* C12 witness: two rows returned by the vector query, the read of the first
\* failed and the read of the second succeeded
C12_Witness ==
  /\ pc = "sn_done"
  /\ mode = "direct"
  /\ stage = "vector"
  /\ Len(rows) = 2
  /\ readFailed = {1}
  /\ snResult.status = "ok"
  /\ snResult.value[1].text = Null
  /\ snResult.value[2].text # Null

(***************************************************************************)
(* Properties of researcherExecutePlan                                     *)
(***************************************************************************)
NoDuplicateUuid(hits) ==
  \A a, b \in 1..Len(hits) : a # b => hits[a].uuid # hits[b].uuid

\* the hits of a sequence that are the first of their uuid, in order
FirstOfUuid(hits) ==
  LET first == {i \in 1..Len(hits) : \A j \in 1..(i - 1) : hits[j].uuid # hits[i].uuid}
      nth(p) == CHOOSE i \in first : Cardinality({j \in first : j < i}) = p - 1
  IN [p \in 1..Cardinality(first) |-> nth(p)]

\* C13: the list researcherExecutePlan assembles holds each document uuid at
\* most once, for every plan: of the hits that the direct searches and the
\* citation follow-up surfaced, exactly the first of each uuid is in the list,
\* in the order they were surfaced.
C13_ResultHasEachUuidOnce ==
  /\ NoDuplicateUuid(rsSeen)
  /\ (rsPc = "done" /\ rsResult.status = "ok") =>
       /\ NoDuplicateUuid(rsResult.value)
       /\ Len(rsResult.value) = Len(FirstOfUuid(rsSurfaced))
       /\ \A p \in 1..Len(rsResult.value) :
            rsResult.value[p] = rsSurfaced[FirstOfUuid(rsSurfaced)[p]]

\* C13 witness: a uuid surfaced by a direct search came back from the citation
\* follow-up, and the returned list holds two documents
C13_Witness ==
  /\ rsPc = "done"
  /\ rsResult.status = "ok"
  /\ Len(rsResult.value) = 2
  /\ \E a, b \in 1..Len(rsSurfaced) :
       /\ a < b
       /\ rsSurfaced[a].uuid = rsSurfaced[b].uuid
       /\ rsSurfaced[a].foundViaCitation = Null
       /\ rsSurfaced[b].foundViaCitation # Null

(***************************************************************************)
(* Source tokens on the client                                             *)
(***************************************************************************)
\* C14 (as claimed): every source token of a sources list the server sends
\* (built by extractSources from the matches) is parsed by the client's
\* parseFileSource to the uuid of the document it was emitted for and to the
\* URL /api/file/<uuid>, never to the "unknown" fallback.
C14_SourceTokensParseBack ==
  mode = "search" =>
    \A m \in AnswerMessages :
      \A p \in 1..Len(sent[m].sources) :
        /\ parseFileSource(sent[m].sources[p]).uuid = frResult.matches[p].uuid
        /\ parseFileSource(sent[m].sources[p]).url = "/api/file/" \o frResult.matches[p].uuid

(***************************************************************************)
(* The title-lookup decision of the search path                            *)
(***************************************************************************)
\* the request's query holds a comma or matches no identifier pattern
NonTitleQuery ==
  \/ Includes(query, ",")
  \/ ~\E p \in 1..Len(idPatterns) : IdPatternTest(Trim(query), idPatterns[p])

\* fetchRelevantMatches has made its searchNearest call
SearchCalled == mode = "search" /\ pc \notin {"h_start", "fr_decide", "done"}

\* C20: for every query the title-lookup decision classifies as non-title (a
\* query with a comma, a query matching no identifier pattern),
\* fetchRelevantMatches calls searchNearest with searchByTitle = false: no
\* title-cascade query is issued, and the external calls are the embedding
\* call and then, when an embedding came back, the vector query.
C20_NonTitleQuerySkipsCascade ==
  (mode = "search" /\ NonTitleQuery) =>
    /\ SearchCalled => ~snOpts.searchByTitle
    /\ ~Issued("exact") /\ ~Issued("id") /\ ~Issued("type")
    /\ calls \in { <<>>, << "embed" >>, << "embed", "vector" >> }
    /\ pc \notin {"sn_exact", "sn_id", "sn_type"}
    /\ stage \in {"none", "vector"}

\* C20 witness: a query that names an identifier but holds a comma went
\* through the embedding call and the vector query and found rows
C20_Witness ==
  /\ mode = "search"
  /\ Includes(query, ",")
  /\ \E p \in 1..Len(idPatterns) : IdPatternTest(Trim(query), idPatterns[p])
  /\ calls = << "embed", "vector" >>
  /\ stage = "vector"
  /\ pc = "sn_done"
  /\ Len(snResult.value) >= 1

(***************************************************************************)
(* Properties of extractRelevantSnippet                                    *)
(***************************************************************************)
SnippetReturned == libPc = "returned" /\ libCall.fn = "extractRelevantSnippet"

\* C15 (as claimed): extractRelevantSnippet returns UNKNOWN_PHRASE or a string
\* of at most 300 characters, for every text and query, with and without the
\* LLM-assisted path.
C15_SnippetAtMost300 ==
  SnippetReturned => (libRet = UNKNOWN_PHRASE \/ Len(libRet) <= SnippetMaxChars)

\* the value without the ellipsis marker of a truncation
WithoutEllipsis(x) ==
  IF Len(x) >= 3 /\ SubSeq(x, Len(x) - 2, Len(x)) = "..." THEN SubSeq(x, 1, Len(x) - 3) ELSE x

\* C16 (as claimed): every value extractRelevantSnippet returns other than
\* UNKNOWN_PHRASE occurs in the input text (a trailing ellipsis marker apart),
\* on the heuristic path and, for every answer of the chat completion, on the
\* LLM-assisted path.
C16_SnippetOccursInText ==
  SnippetReturned =>
    (libRet = UNKNOWN_PHRASE \/ Includes(libCall.text, WithoutEllipsis(libRet)))

(***************************************************************************)
(* Properties of scoreMatches                                              *)
(***************************************************************************)
ScoresReturned == libPc = "returned" /\ libCall.fn = "scoreMatches"

\* the scored input matches with a relevanceScore above 0.2
ScoredAbove(matches, q) ==
  {i \in 1..Len(matches) : AboveThreshold(ScoreOne(matches[i], q))}

\* C17: scoreMatches(matches, query, maxResults) returns scored copies of
\* distinct input matches, each with relevanceScore > 0.2, in non-increasing
\* relevanceScore, as many as maxResults allows, and no omitted match above
\* the threshold scores higher than a returned one.
C17_ScoreMatchesFiltersSortsTruncates ==
  ScoresReturned =>
    LET matches == libCall.matches
        q == libCall.query
        above == ScoredAbove(matches, q)
    IN /\ Len(libRet) = Min(libCall.maxResults, Cardinality(above))
       /\ \A p \in 1..Len(libRet) : AboveThreshold(libRet[p])
       /\ \A p \in 1..(Len(libRet) - 1) :
            libRet[p].relevanceScore >= libRet[p + 1].relevanceScore
       /\ \E f \in [1..Len(libRet) -> above] :
            /\ \A a, b \in 1..Len(libRet) : a # b => f[a] # f[b]
            /\ \A p \in 1..Len(libRet) : libRet[p] = ScoreOne(matches[f[p]], q)
            /\ \A i \in above \ {f[p] : p \in 1..Len(libRet)} :
                 \A p \in 1..Len(libRet) :
                   ScoreOne(matches[i], q).relevanceScore <= libRet[p].relevanceScore

\* a call that filtered a match out, reordered the others and truncated them
C17_Witness ==
  /\ ScoresReturned
  /\ Len(libCall.matches) = 3
  /\ Cardinality(ScoredAbove(libCall.matches, libCall.query)) = 2
  /\ libCall.maxResults = 1
  /\ Len(libRet) = 1
  /\ libRet[1].uuid = libCall.matches[3].uuid
  /\ libRet[1].uuid # libCall.matches[1].uuid
  /\ AboveThreshold(ScoreOne(libCall.matches[1], libCall.query))

(***************************************************************************)
(* Properties of downsampleEmbedding                                       *)
(***************************************************************************)
DownsampleReturned ==
  libPc \in {"returned", "written"} /\ libCall.fn = "downsampleEmbedding"

\* C18 (as claimed): for every vector v of length n and every target d < n,
\* downsampleEmbedding(v, d) has length exactly d.
C18_AnySmallerTargetGivesTargetLength ==
  (DownsampleReturned /\ libCall.targetDim < Len(libCall.embedding)) =>
    Len(libHeap[libRet]) = libCall.targetDim

\* C18 (amended): for every vector v of length n and every target d with
\* 1 <= d < n, downsampleEmbedding(v, d) has length exactly d; a falsy target
\* (0, missing) gives a copy of length n.
C18_TargetBelowLengthGivesTargetLength ==
  /\ (DownsampleReturned /\ 1 <= libCall.targetDim
        /\ libCall.targetDim < Len(libCall.embedding)) =>
       Len(libHeap[libRet]) = libCall.targetDim
  /\ (DownsampleReturned /\ libCall.targetDim = 0) =>
       Len(libHeap[libRet]) = Len(libCall.embedding)

\* a vector of three components reduced to two
C18_Witness ==
  /\ DownsampleReturned
  /\ Len(libCall.embedding) = 3
  /\ libCall.targetDim = 2
  /\ Len(libHeap[libRet]) = 2

\* the target is falsy or not below the length of the vector
KeepsDimension == libCall.targetDim = 0 \/ libCall.targetDim >= Len(libCall.embedding)

\* C19: when targetDim is falsy or targetDim >= len(v), downsampleEmbedding
\* returns a new array with the length and the values of v (no padding), and
\* a later write to that array leaves v as it was.
C19_KeptDimensionGivesIndependentCopy ==
  (DownsampleReturned /\ KeepsDimension) =>
    /\ libRet # ArgRef
    /\ libPc = "returned" => libHeap[libRet] = libCall.embedding
    /\ libHeap[ArgRef] = libCall.embedding

\* the caller wrote into the copy of a vector downsampled to its own length
C19_Witness ==
  /\ DownsampleReturned
  /\ libPc = "written"
  /\ Len(libCall.embedding) >= 1
  /\ libCall.targetDim = Len(libCall.embedding)
  /\ libHeap[libRet] # libCall.embedding
  /\ libHeap[ArgRef] = libCall.embedding

(***************************************************************************)
(* Order of the lookup cascade                                             *)
(***************************************************************************)
\* position of a call in the cascade
StageRank(c) ==
  CASE c = "exact" -> 1 [] c = "id" -> 2 [] c = "type" -> 3 [] c = "embed" -> 4
    [] c = "vector" -> 5

CallsOf(c) == Cardinality({i \in 1..Len(calls) : calls[i] = c})

TitleSearch ==
  mode = "direct" /\ snOpts.searchByTitle /\ ~IsFalsy(snQuery) /\ Trim(snQuery) # ""

\* C21: with searchByTitle the calls of searchNearest run in the order exact,
\* normalized identifier, type+evidence, embedding, vector; a stage starts
\* only after every earlier stage was asked with every variant and gave no
\* row; the first stage query that gives rows is the last call, and its rows
\* are what searchNearest returns.
C21_CascadeInOrderAndShortCircuits ==
  (TitleSearch /\ calls # <<>>) =>
    \E nv \in {Len(generateTitleVariants(Trim(snQuery)))} :
      /\ Len(callRows) = Len(calls)
      /\ \A i \in 1..(Len(calls) - 1) : StageRank(calls[i]) <= StageRank(calls[i + 1])
      /\ \A i \in 1..(Len(calls) - 1) : callRows[i] = 0
      /\ CallsOf("type") <= 1 /\ CallsOf("embed") <= 1 /\ CallsOf("vector") <= 1
      /\ CallsOf("exact") <= nv /\ CallsOf("id") <= nv
      /\ StageRank(calls[Len(calls)]) >= 2 => CallsOf("exact") = nv
      /\ StageRank(calls[Len(calls)]) >= 3 => CallsOf("id") = nv
      /\ StageRank(calls[Len(calls)]) >= 4 =>
           CallsOf("type") = (IF extractTypeEvidence(Trim(snQuery)).ok THEN 1 ELSE 0)
      /\ (StageRank(calls[Len(calls)]) <= 3 /\ callRows[Len(calls)] > 0) =>
           /\ pc \in {"sn_read", "sn_done"}
           /\ stage = calls[Len(calls)]
           /\ pc = "sn_done" =>
                /\ snResult.status = "ok"
                /\ Len(snResult.value) = callRows[Len(calls)]

\* the exact stage found nothing with any variant, the identifier stage found
\* the document, and searchNearest returned it
C21_Witness ==
  /\ TitleSearch
  /\ pc = "sn_done"
  /\ Len(calls) >= 3
  /\ calls[1] = "exact" /\ calls[2] = "exact"
  /\ calls[Len(calls)] = "id"
  /\ callRows[Len(calls)] >= 1
  /\ Len(snResult.value) >= 1

(***************************************************************************)
(* Semantic score of the search pipeline                                   *)
(***************************************************************************)
\* the vector distance the store computed for a candidate
VectorDistance(m) == Corpus[DocOf(m.uuid)].dist

\* C22 (as claimed): in the search pipeline the semanticScore of a candidate
\* found by the vector search is exp(-distance) of its own vector distance, so
\* distance 0 gives 1 and a smaller distance never gives a smaller score.
C22_SemanticScoreIsExpOfDistance ==
  (mode = "search" /\ stage = "vector") =>
    /\ \A i \in 1..Len(scored) :
         scored[i].semanticScore = distanceToSimilarity(VectorDistance(scored[i]))
    /\ \A i \in 1..Len(scored) :
         VectorDistance(scored[i]) = 0 => scored[i].semanticScore = 1000000
    /\ \A i, j \in 1..Len(scored) :
         VectorDistance(scored[i]) < VectorDistance(scored[j]) =>
           scored[i].semanticScore >= scored[j].semanticScore

(***************************************************************************)
(* Blocks of downsampleEmbedding                                           *)
(***************************************************************************)
\* the indices floor(i*n/d) .. floor((i+1)*n/d) - 1 of block i (0-based)
Block(i, n, d) == {j \in 0..(n - 1) : (i * n) \div d <= j /\ j < ((i + 1) * n) \div d}

RECURSIVE SumOver(_, _)
SumOver(v, S) ==
  IF S = {} THEN 0
  ELSE LET j == CHOOSE x \in S : TRUE IN v[j + 1] + SumOver(v, S \ {j})

Reduces == 1 <= libCall.targetDim /\ libCall.targetDim < Len(libCall.embedding)

\* C23: for a vector of length n and a target d with 1 <= d < n the blocks
\* [floor(i*n/d), floor((i+1)*n/d)) are non-empty, contiguous, pairwise
\* disjoint and cover 0..n-1, and output element i is the arithmetic mean of
\* the elements of block i.
C23_BlocksPartitionAndAverage ==
  (libPc = "returned" /\ libCall.fn = "downsampleEmbedding" /\ Reduces) =>
    LET v == libCall.embedding
        n == Len(libCall.embedding)
        d == libCall.targetDim
        out == libHeap[libRet]
    IN /\ \A i \in 0..(d - 1) : Block(i, n, d) # {}
       /\ \A i \in 0..(d - 1) :
            \A j, m \in Block(i, n, d) : \A x \in j..m : x \in Block(i, n, d)
       /\ \A i \in 0..(d - 2) :
            \E j \in Block(i, n, d) : j + 1 \in Block(i + 1, n, d)
       /\ \A a, b \in 0..(d - 1) : a # b => Block(a, n, d) \cap Block(b, n, d) = {}
       /\ UNION {Block(i, n, d) : i \in 0..(d - 1)} = 0..(n - 1)
       /\ Len(out) = d
       /\ \A i \in 0..(d - 1) :
            /\ out[i + 1].den = Cardinality(Block(i, n, d))
            /\ out[i + 1].num = SumOver(v, Block(i, n, d))

\* four components reduced to three: blocks of one, one and two elements
C23_Witness ==
  /\ libPc = "returned"
  /\ libCall.fn = "downsampleEmbedding"
  /\ libCall.embedding = <<1, 2, 2, 1>>
  /\ libCall.targetDim = 3
  /\ libHeap[libRet] = <<[num |-> 1, den |-> 1], [num |-> 2, den |-> 1], [num |-> 3, den |-> 2]>>

(***************************************************************************)
(* Order of the vector-search results                                      *)
(***************************************************************************)
VectorResultReturned == pc = "sn_done" /\ stage = "vector" /\ snResult.status = "ok"

\* |date - reference date| of a returned result, Infinity without a date
ResultDateDiff(m) == IF m.date = NoDate THEN Infinity ELSE Abs(m.date - ragToday)

\* C24: with RAG_TODAY set, the list the vector-search path returns is in
\* non-decreasing absolute difference between result date and reference date,
\* results without a parseable date last, and results with the same date
\* difference in non-decreasing vector distance.
C24_VectorResultsByDateThenDistance ==
  (VectorResultReturned /\ ragToday # NoDate) =>
    \A i, j \in 1..Len(snResult.value) :
      i < j =>
        /\ ResultDateDiff(snResult.value[i]) <= ResultDateDiff(snResult.value[j])
        /\ snResult.value[i].date = NoDate => snResult.value[j].date = NoDate
        /\ ResultDateDiff(snResult.value[i]) = ResultDateDiff(snResult.value[j]) =>
             VectorDistance(snResult.value[i]) <= VectorDistance(snResult.value[j])

\* two results of which the farther one in distance is nearer in date and
\* comes first
C24_Witness ==
  /\ VectorResultReturned
  /\ ragToday # NoDate
  /\ Len(snResult.value) = 2
  /\ VectorDistance(snResult.value[1]) > VectorDistance(snResult.value[2])
  /\ ResultDateDiff(snResult.value[1]) < ResultDateDiff(snResult.value[2])

(***************************************************************************)
(* Bounded parallelism of the body loads                                   *)
(***************************************************************************)
\* C25: within one searchNearest call at most 6 body reads are in flight at
\* any time, whatever the number of rows and the order in which reads end,
\* and the returned list keeps the order of the candidate rows.
C25_AtMostSixReadsAndRowOrder ==
  /\ Cardinality(ReadsInFlight) <= 6
  /\ rdPc = "done" =>
       /\ Len(rdOut) = Len(rdRows)
       /\ \A i \in 1..Len(rdRows) : rdOut[i].uuid = rdRows[i].uuid

\* six reads in flight, a row still waiting, and a later row already loaded
\* while an earlier one is still being read
C25_Witness ==
  /\ rdPc = "loading"
  /\ Cardinality(ReadsInFlight) = 6
  /\ rdQueue # <<>>
  /\ \E i, j \in 1..Len(rdRows) :
       i < j /\ i \in ReadsInFlight /\ rdResults[j].settled

(***************************************************************************)
(* The hard daily limit                                                    *)
(***************************************************************************)
\* the tryConsume calls of the day that returned true
Granted == Cardinality({c \in DOMAIN rlRet : rlRet[c] = "true"})

\* C26 (as claimed): with the database available, under any interleaving of
\* concurrent tryConsume calls the calls that returned true never exceed the
\* limit, the stored counter never exceeds the limit, and every call that
\* returned true is counted in the stored counter.
C26_ConcurrentConsumeKeepsLimit ==
  (rlPc # <<>> /\ ~rlHist.outage) =>
    /\ Granted <= getLimit
    /\ rlDb.committed <= getLimit
    /\ (\A c \in Callers : rlPc[c] = "done") => Granted <= rlDb.committed

\* C27 (as claimed): for tryConsume calls made one after the other while the
\* database fails and recovers, the calls that returned true never exceed the
\* limit.
C27_LimitHoldsAcrossOutages ==
  (rlPc # <<>> /\ ~rlHist.overlap) => Granted <= getLimit

(***************************************************************************)
(* Messages after the terminal message of a request                        *)
(***************************************************************************)
\* the answer carrying `question`, or an error
Terminal(m) == m.type \in {"answer", "error"}

TerminalIsLast(msgs) == \A i \in 1..(Len(msgs) - 1) : ~Terminal(msgs[i])

\* C28 (as claimed): once the terminal message of a request has been sent, no
\* further message of that request is sent, by handleSearch, handleQA or
\* handlePerspectiveAnalysis, also after a timeout error.
C28_NothingSentAfterTerminalMessage ==
  TerminalIsLast(sent) /\ TerminalIsLast(anSent)

(***************************************************************************)
(* The client after a rate-limit error, and its pending requests           *)
(***************************************************************************)
\* C29 (as claimed): once rateLimited is set the client opens no new
\* WebSocket and sends no request, whatever the order of timer, open, close,
\* message and send events, also with a reconnect timer scheduled earlier.
C29_RateLimitedClientStaysClosed ==
  ~clAfterLimit.opened /\ ~clAfterLimit.sent

\* C30: the pending map holds at most one entry in every reachable state;
\* sendMessage adds its entry to an empty map, and the entry is gone after its
\* answer, after an error message, after a failed send and after a close.
C30_AtMostOnePendingRequest ==
  /\ Len(clPending) <= 1
  /\ clLast.ev = "sendstart" => clPending = <<clLast.q>>
  /\ clLast.ev \in {"answer", "sendfail"} =>
       \A p \in 1..Len(clPending) : clPending[p] # clLast.q
  /\ clLast.ev \in {"error", "close"} => clPending = <<>>

\* a second question was sent after the entry of the first was cleared by a
\* close, and its answer removed its entry while requests were outstanding
C30_Witness ==
  /\ clLast.ev = "answer"
  /\ clPending = <<>>
  /\ \E i \in Sockets : clSock[i] = "closed"
  /\ \E i \in Sockets : clSock[i] = "open"
  /\ \E k \in 1..MaxWaiting : clWait[k].pc = "waiting"

====
